---- MODULE Spec2Model ----
(***************************************************************************)
(* crx-mcp: the extension session layer.                                   *)
(*                                                                         *)
(*   BrowserManager   (browser/manager.ts)      launch, close, accessors   *)
(*   ExtensionContext (browser/extension.ts)    the service-worker channel *)
(*   ConsoleCollector (browser/console-collector.ts) and the network log   *)
(*   openPopup, navigate                        the tools that open pages  *)
(*                                                                         *)
(* Every await of the source is a step boundary of the call that makes it; *)
(* the browser, its pages and the extension's service worker are the       *)
(* environment.                                                            *)
(***************************************************************************)
EXTENDS Integers, Sequences, FiniteSets, TLC

VARIABLES
    browser,        \* BrowserManager.browser: 0 (null) or a browser process
    extension,      \* BrowserManager.extension: 0 (null) or an index of ctx
    ctx,            \* the ExtensionContext objects constructed so far
    procs,          \* the browser processes puppeteer.launch has started
    nBrowsers,      \* how many of them there are
    calls,          \* per caller: the call in flight, or its result
    launched,       \* history: a launch has succeeded since the last close
    popupCalled,    \* history: open_popup has been called
    popupPage,      \* history: the page the last open_popup opened
    entries,        \* ConsoleCollector.entries
    networkEntries, \* BrowserManager.networkEntries
    clock,          \* Date.now()
    histC,          \* history: every console event emitted or entry added
    histN,          \* history: every network response received
    lastGet         \* the last getEntries call: options, buffer before, result

sessionVars == <<browser, extension, ctx, procs, nBrowsers, calls,
                 launched, popupCalled, popupPage>>
logVars     == <<entries, networkEntries, clock, histC, histN, lastGet>>
vars        == <<browser, extension, ctx, procs, nBrowsers, calls,
                 launched, popupCalled, popupPage,
                 entries, networkEntries, clock, histC, histN, lastGet>>

(***************************************************************************)
(* Bounds of the model.                                                    *)
(***************************************************************************)
MaxBrowsers  == 2   \* browser processes started in one run
MaxPages     == 2   \* pages open in one browser
MaxWorkerGen == 2   \* service-worker instances per browser
MaxCallers   == 2   \* calls that may be in flight at once
MaxAdds      == 3   \* entries added to a buffer in one run
MaxOver      == 2   \* entries added beyond a full buffer
MaxLimit     == 1   \* largest `limit` option asked of getEntries
MaxExprLen   == 4   \* tokens in an expression given to wrapExpression
MaxEmits     == 2   \* console events pages and workers emit in one run

Callers  == 1..MaxCallers
Browsers == 1..MaxBrowsers

(***************************************************************************)
(* Small helpers.                                                          *)
(***************************************************************************)
\* Array.prototype.slice(-n), n > 0: the last n elements, all when n >= length
SliceLast(s, n) == IF Len(s) <= n THEN s ELSE SubSeq(s, Len(s) - n + 1, Len(s))
\* Array.prototype.find: the first index satisfying P, 0 when there is none
FirstIndex(s, P(_)) ==
    IF \E i \in 1..Len(s) : P(s[i])
    THEN CHOOSE i \in 1..Len(s) : P(s[i]) /\ \A j \in 1..(i - 1) : ~P(s[j])
    ELSE 0

(***************************************************************************)
(* URLs are sequences of tokens; startsWith and includes are computed on   *)
(* them.                                                                   *)
(***************************************************************************)
StartsWith(url, prefix) ==
    /\ Len(url) >= Len(prefix)
    /\ SubSeq(url, 1, Len(prefix)) = prefix
Includes(url, tok) == \E i \in 1..Len(url) : url[i] = tok

ExtPrefix(id)    == <<"chrome-extension://", id, "/">>
ExtUrl(id, path) == ExtPrefix(id) \o path
AboutBlank       == <<"about:blank">>
WebUrl           == <<"https://", "example.com", "/">>
BadUrl           == <<"not a url">>
ManifestJson     == <<"manifest", ".json">>

(***************************************************************************)
(* The extension directories a caller may pass to launch, and what is in   *)
(* them.  "nodir" does not exist; "nomanifest" holds no manifest.json.     *)
(***************************************************************************)
GoodDirs == {"extA", "extB"}
Dirs     == GoodDirs \cup {"nodir", "nomanifest"}

ManifestOf(dir) ==
    IF dir = "extA"
    THEN [name |-> "Alpha", version |-> "1.0",
          popup |-> <<"popup", ".html">>, sw |-> TRUE]
    ELSE [name |-> "", version |-> "",
          popup |-> <<"ui/", "index", ".html">>, sw |-> TRUE]

\* the identity the browser assigns to the unpacked extension of a directory
IdOf(dir) == IF dir = "extA" THEN "aaaa" ELSE "bbbb"

\* launch: const info = { id, name || 'Unknown', version || '0.0.0', manifestPath }
InfoOf(dir, extId) ==
    [id           |-> extId,
     name         |-> IF ManifestOf(dir).name = "" THEN "Unknown"
                      ELSE ManifestOf(dir).name,
     version      |-> IF ManifestOf(dir).version = "" THEN "0.0.0"
                      ELSE ManifestOf(dir).version,
     manifestPath |-> <<dir, "/manifest.json">>]

(***************************************************************************)
(* Results of calls.                                                       *)
(***************************************************************************)
NoRes     == [kind |-> "none", code |-> "", val |-> <<>>]
Ok(v)     == [kind |-> "ok", code |-> "", val |-> v]
Err(code) == [kind |-> "err", code |-> code, val |-> <<>>]

BNL        == "BROWSER_NOT_LAUNCHED"   \* BrowserNotLaunchedError
NoTarget   == "No target page found"   \* getTargetPage's Error
NoPath     == "Extension path does not exist"
NoManifest == "manifest.json not found"
NoChrome   == "Chrome not found"
NoExtId    == "Could not detect extension ID"
SpawnFailAsNoChrome == "Chrome not found"
SpawnFail  == "Failed to launch the browser process"
TypeErr    == "TypeError"              \* a method called on null
NavFail    == "net::ERR"               \* page.goto rejected
SwNA       == "Service Worker not available"
SwEvalErr  == "SW evaluation error"
TargetClosed == "Protocol error: target closed"

\* the errors thrown as CrxMcpError instances, which carry a code; every other
\* error above is thrown as a plain Error
CrxMcpCodes == {BNL}

\* formatError: `[${code}] ${message}` for a CrxMcpError, the message otherwise
FormatError(res) ==
    IF res.code \in CrxMcpCodes
    THEN <<"[", res.code, "] ", "Browser not launched. Call extension_load first.">>
    ELSE <<res.code>>

\* the operations a registered handler runs
ToolOps == {"launch", "open_popup", "navigate",
            "evalInServiceWorker", "evalInServiceWorkerRaw",
            "reload_extension"}

\* a handler of createServer: try { result = await op(...); return content }
\* catch (e) { return { content: formatError(e), isError: true } }
NoOut == [returned |-> FALSE, escaped |-> FALSE, isError |-> FALSE,
          text |-> <<>>]
HandlerResultNoCatch(res) ==
    IF res.kind = "err"
    THEN [returned |-> FALSE, escaped |-> TRUE, isError |-> FALSE, text |-> <<>>]
    ELSE [returned |-> TRUE, escaped |-> FALSE, isError |-> FALSE,
          text |-> res.val]
HandlerResult(res) ==
    IF res.kind = "err"
    THEN [returned |-> TRUE, escaped |-> FALSE, isError |-> TRUE,
          text |-> FormatError(res)]
    ELSE [returned |-> TRUE, escaped |-> FALSE, isError |-> FALSE,
          text |-> res.val]

\* the engine's answer to Runtime.evaluate, before any has arrived
NoResp == [exc |-> FALSE, desc |-> "", text |-> "", type |-> "", value |-> ""]

IdleCall ==
    [op |-> "none", pc |-> "idle", dir |-> "", url |-> <<>>, tgt |-> 0,
     mine |-> 0, det |-> 0, k |-> 0, liveBefore |-> {}, arg |-> "",
     res |-> NoRes, out |-> NoOut,
     strat |-> 0, tried |-> <<>>, by |-> 0,
     raw |-> FALSE, expr |-> <<>>, sent |-> <<>>, target |-> <<>>,
     cdp |-> <<>>, chan |-> "", resp |-> NoResp, pre |-> <<>>,
     clr |-> <<FALSE, FALSE>>, mark |-> <<0, 0>>, was |-> <<0, 0>>]

\* a call that has returned or thrown, and what the handler that made it
\* returns to the client
Finished(call, res) ==
    [call EXCEPT !.pc = "done", !.res = res,
                 !.out = IF call.op \in ToolOps THEN HandlerResult(res)
                         ELSE NoOut]
Done(op, res) == Finished([IdleCall EXCEPT !.op = op], res)

Free(c)  == calls[c].pc \in {"idle", "done"}
Quiet    == \A c \in Callers : Free(c)

(***************************************************************************)
(* The browser processes.                                                  *)
(***************************************************************************)
Unborn ==
    [state |-> "unborn", dir |-> "", loaded |-> FALSE, pages |-> <<>>,
     net |-> {}, con |-> {}, pend |-> {}, watch |-> FALSE,
     wgen |-> 0, walive |-> FALSE, wchan |-> 0, reloading |-> FALSE]

\* a browser that has gone keeps no pages, targets or worker
Gone == [Unborn EXCEPT !.state = "dead"]

IsLive(b)   == b # 0 /\ procs[b].state = "live"
LiveSet     == {b \in Browsers : procs[b].state = "live"}

\* Browser.connected
Connected(b) == IsLive(b)


(***************************************************************************)
(* ExtensionContext: the channel to the extension's service worker.        *)
(* A context is [browser, info, swCdp, swTarget]; swCdp and swTarget are   *)
(* <<>> (null) or <<b, g>>: instance g of the worker of browser b.         *)
(***************************************************************************)
NewContext(b, info) ==
    [browser |-> b, info |-> info, swCdp |-> <<>>, swTarget |-> <<>>]

\* waitForTarget(service_worker under chrome-extension://<id>/): the target,
\* or <<>> after the timeout.  p is the state of the context's browser.
SwTargetOf(x, p) ==
    IF /\ x.browser # 0
       /\ p.state = "live"
       /\ p.loaded
       /\ ManifestOf(p.dir).sw
       /\ p.walive
       /\ StartsWith(ExtUrl(IdOf(p.dir), <<"sw", ".js">>), ExtPrefix(x.info.id))
    THEN <<x.browser, p.wgen>>
    ELSE <<>>

\* this.swCdp = await target.createCDPSession(); attachToWorker(this.swCdp):
\* one more debug channel with forwarding listeners on the running instance
SessionOpened(p) == [p EXCEPT !.wchan = @ + 1]

\* attachServiceWorker, on a context whose browser is not null
AttachServiceWorkerRenames(x, p) ==
    IF SwTargetOf(x, p) # <<>>
    THEN [x EXCEPT !.swTarget = SwTargetOf(x, p), !.swCdp = SwTargetOf(x, p),
                   !.info.name = "Unknown"]
    ELSE x
AttachServiceWorker(x, p) ==
    IF SwTargetOf(x, p) # <<>>
    THEN [x EXCEPT !.swTarget = SwTargetOf(x, p), !.swCdp = SwTargetOf(x, p)]
    ELSE x

\* the liveness probe of getWorkerCDP: Runtime.evaluate('1') on the handle
ProbeOk(h) ==
    /\ h # <<>>
    /\ procs[h[1]].state = "live"
    /\ procs[h[1]].wgen = h[2]
    /\ procs[h[1]].walive

\* page.goto of an extension resource starts the worker when the runtime
\* agrees to (wake) and the model's bound on instances allows it
Woken(p, id, wake) ==
    IF /\ wake
       /\ p.loaded
       /\ ManifestOf(p.dir).sw
       /\ IdOf(p.dir) = id
       /\ ~p.walive
       /\ p.wgen < MaxWorkerGen
    THEN [p EXCEPT !.wgen = p.wgen + 1, !.walive = TRUE, !.wchan = 0]
    ELSE p

\* getWorkerCDP on context x: [x, b, p, cdp, threw]: the context after the
\* call, the browser it touched and that browser's state after it, the
\* handle returned (<<>>: null), and whether the call threw instead.
GetWorkerCDP(x, wake) ==
    LET dropped == [x EXCEPT !.swCdp = <<>>, !.swTarget = <<>>]
        b       == x.browser
    IN  IF ProbeOk(x.swCdp)
        THEN [x |-> x, b |-> 0, p |-> Unborn, cdp |-> x.swCdp, threw |-> FALSE]
        ELSE LET x1 == IF x.swCdp # <<>> THEN dropped ELSE x
             IN  IF b = 0
                 THEN [x |-> x1, b |-> 0, p |-> Unborn, cdp |-> <<>>,
                       threw |-> TRUE]
                 ELSE IF procs[b].state # "live"
                 THEN [x |-> x1, b |-> 0, p |-> Unborn, cdp |-> <<>>,
                       threw |-> FALSE]
                 ELSE LET p0 == procs[b]
                          p1 == [p0 EXCEPT
                                   !.pages[1] = ExtUrl(x.info.id, ManifestJson)]
                          p2 == Woken(p1, x.info.id, wake)
                          x2 == AttachServiceWorker(x1, p2)
                          p3 == IF SwTargetOf(x1, p2) # <<>>
                                THEN SessionOpened(p2) ELSE p2
                      IN  [x |-> x2, b |-> b, p |-> p3, cdp |-> x2.swCdp,
                           threw |-> FALSE]

(***************************************************************************)
(* BrowserManager: the accessors.                                          *)
(***************************************************************************)
GetBrowserRes ==
    IF browser = 0 \/ ~Connected(browser)
    THEN Err(BNL)
    ELSE Ok(<<"browser", browser>>)

GetExtensionRes ==
    IF extension = 0 THEN Err(BNL) ELSE Ok(<<"ext", extension>>)

\* pages[pages.length - 1] || pages[0]
GetActivePageRes ==
    IF GetBrowserRes.kind = "err"
    THEN GetBrowserRes
    ELSE IF Len(procs[browser].pages) = 0
         THEN Ok(<<"undefined">>)
         ELSE Ok(<<"page", browser, Len(procs[browser].pages)>>)

IsPopupUrl(url, id) ==
    StartsWith(url, ExtPrefix(id)) /\ Includes(url, "popup")
IsSidePanelUrl(url, id) ==
    /\ StartsWith(url, ExtPrefix(id))
    /\ (Includes(url, "sidepanel") \/ Includes(url, "side_panel"))

GetTargetPageRes(target) ==
    IF target = "page"
    THEN GetActivePageRes
    ELSE IF GetExtensionRes.kind = "err"
    THEN GetExtensionRes
    ELSE IF GetBrowserRes.kind = "err"
    THEN GetBrowserRes
    ELSE LET id    == ctx[extension].info.id
             pages == procs[browser].pages
             Hit(u) == IF target = "popup" THEN IsPopupUrl(u, id)
                       ELSE IsSidePanelUrl(u, id)
             i     == FirstIndex(pages, Hit)
         IN  IF i = 0 THEN Err(NoTarget) ELSE Ok(<<"page", browser, i>>)


(***************************************************************************)
(* BrowserManager.close and BrowserManager.launch.                         *)
(***************************************************************************)
\* close(): if (this.browser) { ... }
NeedsCloseNever == FALSE
NeedsClose == browser # 0

\* Browser.close() on a browser that is already gone may reject
BrowserCloseThrows(b) ==
    IF procs[b].state = "live" THEN {FALSE} ELSE BOOLEAN

\* close(): try { await this.browser.close() } catch { } and then the two
\* assignments: whether the call fails, and whether it clears the pair
CloseOutcomeNoCatch(threw) == [failed |-> threw, clear |-> ~threw]
CloseOutcome(threw) == [failed |-> FALSE, clear |-> TRUE]

\* launch's preconditions, in order; "" when they hold
LaunchPrecondition(dir, chrome) ==
    IF dir = "nodir" THEN NoPath
    ELSE IF dir = "nomanifest" THEN NoManifest
    ELSE IF ~chrome THEN NoChrome
    ELSE ""

\* launches that have passed the preconditions and not yet started a browser
Starting ==
    {d \in Callers : calls[d].op = "launch" /\ calls[d].pc \in {"closing", "spawn"}}

\* a launch call that has returned or thrown: what it was given, the browser
\* it started and the context it built stay on record
LaunchDone(c, res) ==
    Finished([calls[c] EXCEPT !.url = <<>>, !.tgt = 0, !.det = 0], res)

LaunchBegin(c, dir, chrome, url) ==
    /\ Free(c)
    /\ nBrowsers + Cardinality(Starting) < MaxBrowsers
    /\ calls' = [calls EXCEPT ![c] =
         IF LaunchPrecondition(dir, chrome) # ""
         THEN [Done("launch", Err(LaunchPrecondition(dir, chrome))) EXCEPT
                 !.dir = dir, !.was = <<browser, extension>>]
         ELSE [IdleCall EXCEPT
                 !.op = "launch", !.dir = dir, !.url = url,
                 !.was = <<browser, extension>>,
                 !.pc = IF NeedsClose THEN "closing" ELSE "spawn",
                 !.tgt = IF NeedsClose THEN browser ELSE 0]]
    /\ UNCHANGED <<browser, extension, ctx, procs, nBrowsers, launched,
                   popupCalled, popupPage>>
    /\ UNCHANGED logVars

CloseBegin(c) ==
    /\ Free(c)
    /\ calls' = [calls EXCEPT ![c] =
         IF NeedsClose
         THEN [IdleCall EXCEPT !.op = "close", !.pc = "closing", !.tgt = browser]
         ELSE Done("close", Ok(<<>>))]
    /\ UNCHANGED <<browser, extension, ctx, procs, nBrowsers, launched,
                   popupCalled, popupPage>>
    /\ UNCHANGED logVars

\* the await of this.browser.close() returns, in close() or in launch's close()
CloseFinish(c) ==
    /\ calls[c].pc = "closing"
    /\ \E threw \in BrowserCloseThrows(calls[c].tgt) :
         LET out == CloseOutcome(threw)
         IN  /\ procs' = [procs EXCEPT ![calls[c].tgt] = Gone]
             /\ IF out.clear
                THEN browser' = 0 /\ extension' = 0 /\ launched' = FALSE
                ELSE UNCHANGED <<browser, extension, launched>>
             /\ calls' = [calls EXCEPT ![c] =
                  IF out.failed
                  THEN Done(calls[c].op, Err("Browser.close rejected"))
                  ELSE IF calls[c].op = "launch"
                  THEN [calls[c] EXCEPT !.pc = "spawn"]
                  ELSE [Done("close", Ok(<<>>)) EXCEPT
                          !.arg = IF threw THEN "close rejected" ELSE ""]]
    /\ UNCHANGED <<ctx, nBrowsers, popupCalled, popupPage>>
    /\ UNCHANGED logVars

\* this.browser = await puppeteer.launch(...), and the synchronous start of
\* detectExtensionId (const browser = this.getBrowser())
LaunchBrowser(c) ==
    /\ calls[c].pc = "spawn"
    /\ \E ok \in BOOLEAN, ld \in BOOLEAN :
         IF ~ok
         THEN /\ calls' = [calls EXCEPT ![c] = Done("launch", Err(SpawnFail))]
              /\ UNCHANGED <<browser, procs, nBrowsers>>
         ELSE LET b  == nBrowsers + 1
                  sw == ld /\ ManifestOf(calls[c].dir).sw
              IN  /\ nBrowsers' = b
                  /\ procs' = [procs EXCEPT ![b] =
                       [state |-> "live", dir |-> calls[c].dir, loaded |-> ld,
                        pages |-> <<AboutBlank>>, net |-> {},
                        con |-> {}, pend |-> {}, watch |-> FALSE,
                        wgen |-> IF sw THEN 1 ELSE 0, walive |-> sw,
                        wchan |-> 0, reloading |-> FALSE]]
                  /\ browser' = b
                  /\ calls' = [calls EXCEPT ![c] =
                       [calls[c] EXCEPT !.pc = "detect", !.mine = b, !.det = b,
                                        !.strat = 1,
                                        !.liveBefore = LiveSet]]
    /\ UNCHANGED <<extension, ctx, launched, popupCalled, popupPage>>
    /\ UNCHANGED logVars

\* detectExtensionId.  extRegex = /chrome-extension:\/\/([a-z]{32})\//: the
\* token after the first "chrome-extension://" that is an identity and is
\* followed by "/"; "" when the URL does not match.
ExtIds == {"aaaa", "bbbb"}
MatchExtRegexScheme(url) ==
    IF \E i \in 1..(Len(url) - 2) :
          url[i] = "chrome-extension://" /\ url[i + 1] \in ExtIds /\ url[i + 2] = "/"
    THEN url[1]
    ELSE ""
MatchExtRegex(url) ==
    IF \E i \in 1..(Len(url) - 2) :
          url[i] = "chrome-extension://" /\ url[i + 1] \in ExtIds /\ url[i + 2] = "/"
    THEN url[1 + CHOOSE i \in 1..(Len(url) - 2) :
                  /\ url[i] = "chrome-extension://" /\ url[i + 1] \in ExtIds
                  /\ url[i + 2] = "/"
                  /\ \A j \in 1..(i - 1) :
                        ~(url[j] = "chrome-extension://" /\ url[j + 1] \in ExtIds
                          /\ url[j + 2] = "/")]
    ELSE ""

\* the targets of browser state p, as their URLs: the pages, then the
\* extension's service worker when it runs
TargetUrls(p) ==
    IF p.state # "live" THEN <<>>
    ELSE p.pages \o
         (IF p.loaded /\ ManifestOf(p.dir).sw /\ p.walive
          THEN <<ExtUrl(IdOf(p.dir), <<"sw", ".js">>)>> ELSE <<>>)

\* the first target whose URL yields a token, as that token; "" when none does
FirstToken(urls) ==
    IF \E i \in 1..Len(urls) : MatchExtRegex(urls[i]) # ""
    THEN MatchExtRegex(urls[CHOOSE i \in 1..Len(urls) :
                              /\ MatchExtRegex(urls[i]) # ""
                              /\ \A j \in 1..(i - 1) : MatchExtRegex(urls[j]) = ""])
    ELSE ""

\* the id of the first extensions-item of chrome://extensions
ExtensionsPageId(p) == IF p.loaded THEN IdOf(p.dir) ELSE ""

\* methods 3 and 4 need pages()[0]
HasPage(p) == p.state = "live" /\ Len(p.pages) > 0

\* what strategy s yields on browser state p: method 1 the target
\* waitForTarget resolved with in time (seen), method 2 browser.targets(),
\* method 3 Target.getTargets, method 4 the extensions page; methods 3 and 4
\* yield nothing when the protocol call fails (~ok)
StrategyToken(s, p, seen, ok) ==
    CASE s = 1 -> IF seen THEN FirstToken(TargetUrls(p)) ELSE ""
      [] s = 2 -> FirstToken(TargetUrls(p))
      [] s = 3 -> IF HasPage(p) /\ ok THEN FirstToken(TargetUrls(p)) ELSE ""
      [] s = 4 -> IF HasPage(p) /\ ok THEN ExtensionsPageId(p) ELSE ""

\* whether the code runs strategy s at all
Attempted(s, p) == s \in {1, 2} \/ HasPage(p)

\* the methods follow each other in the text of detectExtensionId
LastStrategy == 4
NextStrategyRetry(s) == IF s = 3 THEN 1 ELSE s + 1
NextStrategy(s) == s + 1

ChromeExtensions == <<"chrome://extensions">>

\* one strategy of detectExtensionId; when it yields a token,
\* this.extension = new ExtensionContext(this.browser, info, this.console);
\* after the last one, throw 'Could not detect extension ID'
LaunchDetect(c) ==
    /\ calls[c].pc = "detect"
    /\ \E seen \in BOOLEAN, ok \in BOOLEAN :
         LET s     == calls[c].strat
             b     == calls[c].det
             p     == procs[b]
             token == StrategyToken(s, p, seen, ok)
             tried == IF Attempted(s, p) THEN Append(calls[c].tried, s)
                      ELSE calls[c].tried
         IN  \* seen matters to method 1 only, ok to methods 3 and 4 only
             /\ (s # 1 => seen)
             /\ (s \notin {3, 4} => ok)
             /\ procs' = IF s = 4 /\ HasPage(p)
                         THEN [procs EXCEPT ![b].pages[1] = ChromeExtensions]
                         ELSE procs
             /\ IF token # ""
                THEN /\ ctx' = Append(ctx,
                          NewContext(browser, InfoOf(calls[c].dir, token)))
                     /\ extension' = Len(ctx) + 1
                     /\ calls' = [calls EXCEPT ![c] =
                          [calls[c] EXCEPT
                             !.k = Len(ctx) + 1, !.tried = tried, !.by = s,
                             !.pc = IF ManifestOf(calls[c].dir).sw THEN "attach"
                                    ELSE "finish"]]
                ELSE /\ UNCHANGED <<extension, ctx>>
                     /\ calls' = [calls EXCEPT ![c] =
                          IF s = LastStrategy
                          THEN Finished([calls[c] EXCEPT
                                            !.tried = tried, !.url = <<>>,
                                            !.tgt = 0, !.det = 0],
                                        Err(NoExtId))
                          ELSE [calls[c] EXCEPT !.strat = NextStrategy(s),
                                                !.tried = tried]]
    /\ UNCHANGED <<browser, nBrowsers, launched, popupCalled, popupPage>>
    /\ UNCHANGED logVars

\* await this.extension.attachServiceWorker()
LaunchAttach(c) ==
    /\ calls[c].pc = "attach"
    /\ LET x == ctx[calls[c].k]
       IN  IF x.browser = 0
           THEN /\ calls' = [calls EXCEPT ![c] = LaunchDone(c, Err(TypeErr))]
                /\ UNCHANGED <<ctx, procs>>
           ELSE /\ ctx' = [ctx EXCEPT ![calls[c].k] =
                     AttachServiceWorker(x, procs[x.browser])]
                /\ procs' = IF SwTargetOf(x, procs[x.browser]) # <<>>
                            THEN [procs EXCEPT ![x.browser] = SessionOpened(@)]
                            ELSE procs
                /\ calls' = [calls EXCEPT ![c] = [calls[c] EXCEPT !.pc = "finish"]]
    /\ UNCHANGED <<browser, extension, nBrowsers, launched,
                   popupCalled, popupPage>>
    /\ UNCHANGED logVars

\* for (const page of pages) this.console.attachToPage(page, 'page'), and
\* this.browser.on('targetcreated', ...)
ConsoleObservedNoWatch(p) == [p EXCEPT !.con = 1..Len(p.pages)]
ConsoleObserved(p) == [p EXCEPT !.con = 1..Len(p.pages), !.watch = TRUE]

\* setupNetworkMonitoring: attachNetworkToPage for each of the pages the
\* browser has now
NetworkMonitored(p) == [p EXCEPT !.net = 1..Len(p.pages)]

\* the rest of launch: this.browser.pages(), setupNetworkMonitoring, the
\* navigation to initialUrl, return info
LaunchFinish(c) ==
    /\ calls[c].pc = "finish"
    /\ LET fail == IF browser = 0 THEN TypeErr
                   ELSE IF GetBrowserRes.kind = "err" THEN BNL
                   ELSE IF calls[c].url = BadUrl THEN NavFail
                   ELSE ""
       IN  IF fail # ""
           THEN /\ calls' = [calls EXCEPT ![c] = LaunchDone(c, Err(fail))]
                /\ procs' = IF fail = NavFail
                            THEN [procs EXCEPT ![browser] =
                                    NetworkMonitored(ConsoleObserved(@))]
                            ELSE procs
                /\ UNCHANGED launched
           ELSE /\ calls' = [calls EXCEPT ![c] =
                     LaunchDone(c, Ok(<<"info", ctx[calls[c].k].info>>))]
                /\ procs' = IF calls[c].url = <<>>
                            THEN [procs EXCEPT ![browser] =
                                    NetworkMonitored(ConsoleObserved(@))]
                            ELSE [procs EXCEPT ![browser] =
                                    [NetworkMonitored(ConsoleObserved(@)) EXCEPT
                                       !.pages[Len(procs[browser].pages)] =
                                           calls[c].url]]
                /\ launched' = TRUE
    /\ UNCHANGED <<browser, extension, ctx, nBrowsers, popupCalled, popupPage>>
    /\ UNCHANGED logVars


\* a page target is created in browser state p.  The targetcreated listener,
\* when launch has registered it, runs `await target.page()` and then
\* attachToPage.  A page made by browser.newPage() (byNewPage) is not handed
\* to its caller before target.page() has resolved, so the listener has
\* attached by then; a tab the browser opens by itself waits for the
\* listener (pend).
PageCreated(p, url, byNewPage) ==
    LET n == Len(p.pages) + 1
    IN  [p EXCEPT !.pages = Append(@, url),
                  !.con   = IF p.watch /\ byNewPage THEN @ \cup {n} ELSE @,
                  !.pend  = IF p.watch /\ ~byNewPage THEN @ \cup {n} ELSE @]

(***************************************************************************)
(* Calls of the accessors.                                                 *)
(***************************************************************************)
Targets == {"page", "popup", "sidepanel"}

GetBrowser(c) ==
    /\ Free(c)
    /\ calls' = [calls EXCEPT ![c] = Done("getBrowser", GetBrowserRes)]
    /\ UNCHANGED <<browser, extension, ctx, procs, nBrowsers, launched,
                   popupCalled, popupPage>>
    /\ UNCHANGED logVars

GetExtension(c) ==
    /\ Free(c)
    /\ calls' = [calls EXCEPT ![c] = Done("getExtension", GetExtensionRes)]
    /\ UNCHANGED <<browser, extension, ctx, procs, nBrowsers, launched,
                   popupCalled, popupPage>>
    /\ UNCHANGED logVars

GetActivePage(c) ==
    /\ Free(c)
    /\ calls' = [calls EXCEPT ![c] = Done("getActivePage", GetActivePageRes)]
    /\ UNCHANGED <<browser, extension, ctx, procs, nBrowsers, launched,
                   popupCalled, popupPage>>
    /\ UNCHANGED logVars

GetTargetPage(c, target) ==
    /\ Free(c)
    /\ calls' = [calls EXCEPT ![c] =
         [Done("getTargetPage", GetTargetPageRes(target)) EXCEPT !.arg = target]]
    /\ UNCHANGED <<browser, extension, ctx, procs, nBrowsers, launched,
                   popupCalled, popupPage>>
    /\ UNCHANGED logVars

(***************************************************************************)
(* The tools that take a target.                                           *)
(***************************************************************************)
\* screenshot, click, type, wait_for, eval_extension_page:
\* const page = await manager.getTargetPage(input.target)
TargetTools == {"screenshot", "click", "type", "wait_for", "eval_extension_page"}

ActOnTarget(c, op, target) ==
    /\ Free(c)
    /\ calls' = [calls EXCEPT ![c] =
         [Done(op, GetTargetPageRes(target)) EXCEPT !.arg = target]]
    /\ UNCHANGED <<browser, extension, ctx, procs, nBrowsers, launched,
                   popupCalled, popupPage>>
    /\ UNCHANGED logVars

\* snapshot: manager.getBrowser(); for target page the active page; else
\* manager.getExtension(), pages.find(url includes the marker), and
\* if (!page) page = await manager.getActivePage()
SnapshotPageRes(target) ==
    IF GetBrowserRes.kind = "err"
    THEN GetBrowserRes
    ELSE IF target = "page"
    THEN GetActivePageRes
    ELSE IF GetExtensionRes.kind = "err"
    THEN GetExtensionRes
    ELSE LET pages == procs[browser].pages
             Hit(u) == IF target = "popup" THEN Includes(u, "popup")
                       ELSE Includes(u, "sidepanel") \/ Includes(u, "side_panel")
             i     == FirstIndex(pages, Hit)
         IN  IF i = 0 THEN GetActivePageRes ELSE Ok(<<"page", browser, i>>)

Snapshot(c, target) ==
    /\ Free(c)
    /\ calls' = [calls EXCEPT ![c] =
         [Done("snapshot", SnapshotPageRes(target)) EXCEPT !.arg = target]]
    /\ UNCHANGED <<browser, extension, ctx, procs, nBrowsers, launched,
                   popupCalled, popupPage>>
    /\ UNCHANGED logVars

(***************************************************************************)
(* The open_popup and navigate tools.                                      *)
(***************************************************************************)
\* manifest.action?.default_popup || manifest.action?.popup || null, read in
\* the worker the handle h leads to; <<>> when evalInServiceWorkerRaw threw
PopupPathVia(r, ps) ==
    IF r.threw \/ r.cdp = <<>> THEN <<>> ELSE ManifestOf(ps[r.cdp[1]].dir).popup

OpenPopup(c) ==
    /\ Free(c)
    /\ browser # 0 => Len(procs[browser].pages) < MaxPages
    /\ popupCalled' = TRUE
    /\ IF GetExtensionRes.kind = "err" \/ GetBrowserRes.kind = "err"
       THEN /\ calls' = [calls EXCEPT ![c] = Done("open_popup", Err(BNL))]
            /\ UNCHANGED <<ctx, procs, popupPage>>
       ELSE \E wake \in BOOLEAN :
              LET k    == extension
                  b    == browser
                  r    == GetWorkerCDP(ctx[k], wake)
                  ps   == IF r.b # 0 THEN [procs EXCEPT ![r.b] = r.p] ELSE procs
                  path == PopupPathVia(r, ps)
                  n    == Len(ps[b].pages) + 1
              IN  /\ ctx' = [ctx EXCEPT ![k] = r.x]
                  /\ IF path = <<>>
                     THEN /\ procs' = ps
                          /\ calls' = [calls EXCEPT ![c] =
                               Done("open_popup", Ok(<<"No popup defined">>))]
                          /\ UNCHANGED popupPage
                     ELSE /\ procs' = [ps EXCEPT ![b] =
                               PageCreated(@, ExtUrl(ctx[k].info.id, path), TRUE)]
                          /\ popupPage' = <<b, n>>
                          /\ calls' = [calls EXCEPT ![c] =
                               Done("open_popup", Ok(<<"page", b, n>>))]
    /\ UNCHANGED <<browser, extension, nBrowsers, launched>>
    /\ UNCHANGED logVars

NavUrls == {WebUrl, BadUrl, ExtUrl(IdOf("extA"), <<"popup", ".html">>)}

Navigate(c, url, clearNetwork, clearConsole) ==
    /\ Free(c)
    /\ networkEntries' = IF clearNetwork THEN <<>> ELSE networkEntries
    /\ entries' = IF clearConsole THEN <<>> ELSE entries
    /\ IF GetActivePageRes.kind = "err"
       THEN /\ calls' = [calls EXCEPT ![c] = Done("navigate", GetActivePageRes)]
            /\ UNCHANGED <<procs, popupPage>>
       ELSE IF url = BadUrl
       THEN /\ calls' = [calls EXCEPT ![c] = Done("navigate", Err(NavFail))]
            /\ UNCHANGED <<procs, popupPage>>
       ELSE \E wake \in BOOLEAN :
              LET b  == browser
                  n  == Len(procs[b].pages)
                  p1 == [procs[b] EXCEPT !.pages[n] = url]
                  p2 == IF StartsWith(url, ExtPrefix(IdOf(p1.dir)))
                        THEN Woken(p1, IdOf(p1.dir), wake)
                        ELSE p1
              IN  /\ procs' = [procs EXCEPT ![b] = p2]
                  /\ popupPage' = IF popupPage = <<b, n>> THEN <<>> ELSE popupPage
                  /\ calls' = [calls EXCEPT ![c] =
                       Done("navigate", Ok(<<"page", b, n>>))]
    /\ UNCHANGED <<browser, extension, ctx, nBrowsers, launched, popupCalled>>
    /\ UNCHANGED <<clock, histC, histN, lastGet>>

(***************************************************************************)
(* The environment: a browser goes away (crash, window closed); the        *)
(* runtime stops an idle service worker.                                   *)
(***************************************************************************)
BrowserDisconnects(b) ==
    /\ IsLive(b)
    /\ procs' = [procs EXCEPT ![b] = Gone]
    /\ UNCHANGED <<browser, extension, ctx, nBrowsers, calls, launched,
                   popupCalled, popupPage>>
    /\ UNCHANGED logVars

WorkerStops(b) ==
    /\ IsLive(b)
    /\ procs[b].walive
    /\ procs' = [procs EXCEPT ![b].walive = FALSE, ![b].wchan = 0]
    /\ UNCHANGED <<browser, extension, ctx, nBrowsers, calls, launched,
                   popupCalled, popupPage>>
    /\ UNCHANGED logVars

(***************************************************************************)
(* wrapExpression.  An expression is a sequence of tokens: white space,    *)
(* punctuation, words.  trim, the regular expressions, split and join are  *)
(* computed on the tokens.                                                 *)
(***************************************************************************)
WhiteSpace == {" ", "\n"}
WordTokens == {"async", "function", "return", "x"}

\* String.prototype.trim
Trim(t) ==
    IF \A i \in 1..Len(t) : t[i] \in WhiteSpace
    THEN <<>>
    ELSE SubSeq(t,
                CHOOSE i \in 1..Len(t) :
                    t[i] \notin WhiteSpace /\ \A j \in 1..(i - 1) : t[j] \in WhiteSpace,
                CHOOSE i \in 1..Len(t) :
                    t[i] \notin WhiteSpace
                    /\ \A j \in (i + 1)..Len(t) : t[j] \in WhiteSpace)

\* /^\(async\s/.test(t) && t.endsWith(')'), /^\(function/.test(t) && ...
IsIIFE(t) ==
    \/ /\ Len(t) >= 4
       /\ t[1] = "(" /\ t[2] = "async" /\ t[3] \in WhiteSpace
       /\ t[Len(t)] = ")"
    \/ /\ Len(t) >= 3
       /\ t[1] = "(" /\ t[2] = "function"
       /\ t[Len(t)] = ")"

\* /\breturn\b/.test(t)
HasReturn(t) ==
    \E i \in 1..Len(t) :
        /\ t[i] = "return"
        /\ (i = 1 \/ t[i - 1] \notin WordTokens)
        /\ (i = Len(t) \/ t[i + 1] \notin WordTokens)

\* t.replace(/;+$/, '') and t.replace(/;$/, '')
RECURSIVE StripSemicolons(_)
StripSemicolons(t) ==
    IF t # <<>> /\ t[Len(t)] = ";"
    THEN StripSemicolons(SubSeq(t, 1, Len(t) - 1))
    ELSE t
StripOneSemicolon(t) ==
    IF t # <<>> /\ t[Len(t)] = ";" THEN SubSeq(t, 1, Len(t) - 1) ELSE t

\* t.split(';')
RECURSIVE Split(_)
Split(t) ==
    IF \E i \in 1..Len(t) : t[i] = ";"
    THEN LET i == CHOOSE k \in 1..Len(t) :
                     t[k] = ";" /\ \A j \in 1..(k - 1) : t[j] # ";"
         IN  <<SubSeq(t, 1, i - 1)>> \o Split(SubSeq(t, i + 1, Len(t)))
    ELSE <<t>>

\* .map((s) => s.trim()).filter(Boolean)
RECURSIVE TrimAll(_)
TrimAll(ss) ==
    IF ss = <<>> THEN <<>>
    ELSE (IF Trim(ss[1]) = <<>> THEN <<>> ELSE <<Trim(ss[1])>>)
         \o TrimAll(SubSeq(ss, 2, Len(ss)))

Statements(t) == TrimAll(Split(StripSemicolons(t)))

\* statements.join(';\n')
RECURSIVE Join(_)
Join(ss) ==
    IF ss = <<>> THEN <<>>
    ELSE IF Len(ss) = 1 THEN ss[1]
    ELSE ss[1] \o <<";", "\n">> \o Join(SubSeq(ss, 2, Len(ss)))

\* `(async () => { ` and ` })()`
IIFEOpen  == <<"(", "async", " ", "(", ")", " ", "=>", " ", "{", " ">>
IIFEClose == <<" ", "}", ")", "(", ")">>

WrapExpressionAlways(expr) ==
    IIFEOpen \o Trim(expr) \o IIFEClose
WrapExpression(expr) ==
    LET trimmed    == Trim(expr)
        statements == Statements(trimmed)
        n          == Len(statements)
    IN  IF IsIIFE(trimmed) THEN trimmed
        ELSE IF HasReturn(trimmed)
        THEN IIFEOpen \o trimmed \o IIFEClose
        ELSE IF n > 1
        THEN IIFEOpen \o Join(SubSeq(statements, 1, n - 1))
                 \o <<";", "\n", "return", " ">> \o statements[n] \o <<";">>
                 \o IIFEClose
        ELSE IIFEOpen \o <<"return", " ">> \o StripOneSemicolon(trimmed)
                 \o <<";">> \o IIFEClose

\* a call of wrapExpression, and a second call on what the first returned
WrapOnce(c) ==
    /\ calls[c].op = "wrapExpression" /\ calls[c].pc = "idle"
    /\ calls' = [calls EXCEPT ![c] =
         [calls[c] EXCEPT !.pc = "wrapped", !.sent = WrapExpression(calls[c].expr)]]
    /\ UNCHANGED <<browser, extension, ctx, procs, nBrowsers, launched,
                   popupCalled, popupPage>>
    /\ UNCHANGED logVars

Rewrap(c) ==
    /\ calls[c].op = "wrapExpression" /\ calls[c].pc = "wrapped"
    /\ calls' = [calls EXCEPT ![c] =
         [calls[c] EXCEPT !.pc = "rewrapped", !.expr = calls[c].sent,
                          !.sent = WrapExpression(calls[c].sent)]]
    /\ UNCHANGED <<browser, extension, ctx, procs, nBrowsers, launched,
                   popupCalled, popupPage>>
    /\ UNCHANGED logVars

(***************************************************************************)
(* evalInServiceWorker and evalInServiceWorkerRaw, with getWorkerCDP and   *)
(* attachServiceWorker inside them, one step per await.  The worker may    *)
(* stop between any two steps.                                             *)
(***************************************************************************)
EvalOps == {"evalInServiceWorker", "evalInServiceWorkerRaw"}

\* what the engine may answer to Runtime.evaluate: an exception with a
\* description, with a text only, with neither; no value; a value
Responses ==
    {[exc |-> TRUE,  desc |-> "ReferenceError: x is not defined",
      text |-> "Uncaught", type |-> "object", value |-> ""],
     [exc |-> TRUE,  desc |-> "", text |-> "Uncaught", type |-> "object",
      value |-> "v"],
     [exc |-> TRUE,  desc |-> "", text |-> "", type |-> "object", value |-> ""],
     [exc |-> FALSE, desc |-> "", text |-> "", type |-> "undefined",
      value |-> ""],
     [exc |-> FALSE, desc |-> "", text |-> "", type |-> "string",
      value |-> "v"]}

\* evalInServiceWorker, from the answer on: description ?? text ?? 'SW
\* evaluation error'; undefined; result.result.value
EvalInServiceWorkerResultIgnoreException(resp) ==
    IF resp.type = "undefined" THEN Ok(<<"undefined">>) ELSE Ok(<<resp.value>>)
EvalInServiceWorkerResult(resp) ==
    IF resp.exc
    THEN Err(IF resp.desc # "" THEN resp.desc
             ELSE IF resp.text # "" THEN resp.text
             ELSE SwEvalErr)
    ELSE IF resp.type = "undefined" THEN Ok(<<"undefined">>)
    ELSE Ok(<<resp.value>>)

\* evalInServiceWorkerRaw, from the answer on
EvalInServiceWorkerRawResultTextOnly(resp) ==
    IF resp.exc
    THEN Err(IF resp.text # "" THEN resp.text ELSE SwEvalErr)
    ELSE IF resp.type = "undefined" THEN Ok(<<"undefined">>)
    ELSE Ok(<<resp.value>>)
EvalInServiceWorkerRawResult(resp) ==
    IF resp.exc
    THEN Err(IF resp.desc # "" THEN resp.desc
             ELSE IF resp.text # "" THEN resp.text
             ELSE SwEvalErr)
    ELSE IF resp.type = "undefined" THEN Ok(<<"undefined">>)
    ELSE Ok(<<resp.value>>)

\* reloadExtension: the trigger and the message of its success
ReloadTrigger == <<"chrome.runtime.reload()">>
Reattached    == <<"Extension reloaded. Service Worker re-attached.">>

\* an evaluation ends with res: the tool's result, except in reloadExtension,
\* whose .catch(() => {}) drops it and goes on to the 2 s wait
EvalEnd(call, res) ==
    IF call.op = "reload_extension"
    THEN [call EXCEPT !.pc = "reloadWait", !.res = res]
    ELSE Finished(call, res)

\* a rejection leaves attachServiceWorker: inside an evaluation it ends the
\* evaluation; in reloadExtension's own attachServiceWorker it ends the tool
ChannelRaise(call, code) ==
    IF call.arg = "reattach"
    THEN Finished([call EXCEPT !.chan = "raised"], Err(code))
    ELSE EvalEnd([call EXCEPT !.chan = "raised"], Err(code))

\* attachServiceWorker or the probe is through and this.swCdp is h (how: by
\* the probe, by a fresh attach, or as it was cached).  getWorkerCDP returns
\* h to the eval that called it: if (!cdp) throw new Error('Service Worker
\* not available'); reloadExtension returns its success whatever h is
ChannelReturn(call, h, how) ==
    IF call.arg = "reattach"
    THEN Finished([call EXCEPT !.cdp = h, !.chan = how], Ok(Reattached))
    ELSE IF h = <<>>
    THEN EvalEnd([call EXCEPT !.chan = "null"], Err(SwNA))
    ELSE [call EXCEPT !.pc = "send", !.cdp = h, !.chan = how]

\* getWorkerCDP without its probe: every call goes on to the wake
EvalBeginNoProbe(c, raw, expr) ==
    /\ Free(c)
    /\ LET op == IF raw THEN "evalInServiceWorkerRaw" ELSE "evalInServiceWorker"
       IN  calls' = [calls EXCEPT ![c] =
             IF GetExtensionRes.kind = "err"
             THEN Done(op, GetExtensionRes)
             ELSE [IdleCall EXCEPT
                     !.op = op, !.raw = raw, !.expr = expr, !.k = extension,
                     !.pre = ctx[extension].swCdp,
                     !.chan = IF ctx[extension].swCdp # <<>> THEN "" ELSE "nocache",
                     !.pc = "wake"]]
    /\ UNCHANGED <<browser, extension, ctx, procs, nBrowsers, launched,
                   popupCalled, popupPage>>
    /\ UNCHANGED logVars

\* a tool calls manager.getExtension() and then the eval method, which calls
\* getWorkerCDP: if (this.swCdp) ...
EvalBegin(c, raw, expr) ==
    /\ Free(c)
    /\ LET op == IF raw THEN "evalInServiceWorkerRaw" ELSE "evalInServiceWorker"
       IN  calls' = [calls EXCEPT ![c] =
             IF GetExtensionRes.kind = "err"
             THEN Done(op, GetExtensionRes)
             ELSE [IdleCall EXCEPT
                     !.op = op, !.raw = raw, !.expr = expr, !.k = extension,
                     !.pre = ctx[extension].swCdp,
                     !.chan = IF ctx[extension].swCdp # <<>> THEN "" ELSE "nocache",
                     !.pc = IF ctx[extension].swCdp # <<>> THEN "probe"
                            ELSE "wake"]]
    /\ UNCHANGED <<browser, extension, ctx, procs, nBrowsers, launched,
                   popupCalled, popupPage>>
    /\ UNCHANGED logVars

\* the probe, sent on the handle that was cached when the call began,
\* returns or rejects; return this.swCdp reads the field again
ChannelProbe(c) ==
    /\ calls[c].pc = "probe"
    /\ LET x == ctx[calls[c].k]
       IN  IF ProbeOk(calls[c].pre)
           THEN /\ calls' = [calls EXCEPT ![c] =
                     ChannelReturn(calls[c], x.swCdp, "probed")]
                /\ UNCHANGED ctx
           ELSE /\ ctx' = [ctx EXCEPT ![calls[c].k] =
                     [x EXCEPT !.swCdp = <<>>, !.swTarget = <<>>]]
                /\ calls' = [calls EXCEPT ![c] =
                     [calls[c] EXCEPT !.pc = "wake", !.chan = "dropped"]]
    /\ UNCHANGED <<browser, extension, procs, nBrowsers, launched,
                   popupCalled, popupPage>>
    /\ UNCHANGED logVars

\* (await this.browser.pages())[0], and page.goto(manifest.json).catch()
ChannelWake(c) ==
    /\ calls[c].pc = "wake"
    /\ LET x == ctx[calls[c].k]
           b == x.browser
       IN  IF b = 0
           THEN /\ calls' = [calls EXCEPT ![c] = ChannelRaise(calls[c], TypeErr)]
                /\ UNCHANGED procs
           ELSE /\ calls' = [calls EXCEPT ![c] = [calls[c] EXCEPT !.pc = "waitTarget"]]
                /\ IF ~HasPage(procs[b])
                   THEN UNCHANGED procs
                   ELSE \E wake \in BOOLEAN :
                          procs' = [procs EXCEPT ![b] =
                            Woken([procs[b] EXCEPT
                                     !.pages[1] = ExtUrl(x.info.id, ManifestJson)],
                                  x.info.id, wake)]
    /\ UNCHANGED <<browser, extension, ctx, nBrowsers, launched,
                   popupCalled, popupPage>>
    /\ UNCHANGED logVars

\* attachServiceWorker: waitForTarget(...).catch(() => null) has settled
ChannelAttach(c) ==
    /\ calls[c].pc = "waitTarget"
    /\ LET x == ctx[calls[c].k]
           t == SwTargetOf(x, procs[x.browser])
       IN  IF t = <<>>
           THEN /\ calls' = [calls EXCEPT ![c] =
                     ChannelReturn(calls[c], x.swCdp, "cached")]
                /\ UNCHANGED ctx
           ELSE /\ ctx' = [ctx EXCEPT ![calls[c].k] = [x EXCEPT !.swTarget = t]]
                /\ calls' = [calls EXCEPT ![c] =
                     [calls[c] EXCEPT !.pc = "session", !.target = t]]
    /\ UNCHANGED <<browser, extension, procs, nBrowsers, launched,
                   popupCalled, popupPage>>
    /\ UNCHANGED logVars

\* attachServiceWorker: await target.worker(), await
\* target.createCDPSession().  On a target that has gone meanwhile the
\* protocol call rejects, or worker() yields null.
ChannelSession(c) ==
    /\ calls[c].pc = "session"
    /\ LET x == ctx[calls[c].k]
           t == calls[c].target
       IN  IF ProbeOk(t)
           THEN /\ ctx' = [ctx EXCEPT ![calls[c].k] = [x EXCEPT !.swCdp = t]]
                /\ procs' = [procs EXCEPT ![t[1]] = SessionOpened(@)]
                /\ calls' = [calls EXCEPT ![c] =
                     ChannelReturn(calls[c], t, "attached")]
           ELSE /\ UNCHANGED <<ctx, procs>>
                /\ \E rejects \in BOOLEAN :
                     calls' = [calls EXCEPT ![c] =
                       IF rejects
                       THEN ChannelRaise(calls[c], TargetClosed)
                       ELSE ChannelReturn(calls[c], x.swCdp, "cached")]
    /\ UNCHANGED <<browser, extension, nBrowsers, launched,
                   popupCalled, popupPage>>
    /\ UNCHANGED logVars

\* cdp.send('Runtime.evaluate', { expression, ... }) and what follows it.
\* Evaluating the reload trigger ends the worker instance, and the call with
\* it; the runtime starts the next instance later.
EvalSend(c) ==
    /\ calls[c].pc = "send"
    /\ LET sent == IF calls[c].raw THEN calls[c].expr
                   ELSE WrapExpression(calls[c].expr)
           call == [calls[c] EXCEPT !.sent = sent]
           h    == calls[c].cdp
       IN  IF ~ProbeOk(h)
           THEN /\ calls' = [calls EXCEPT ![c] = EvalEnd(call, Err(TargetClosed))]
                /\ UNCHANGED procs
           ELSE IF calls[c].expr = ReloadTrigger
           THEN /\ calls' = [calls EXCEPT ![c] = EvalEnd(call, Err(TargetClosed))]
                /\ procs' = [procs EXCEPT ![h[1]].walive = FALSE,
                                          ![h[1]].wchan = 0,
                                          ![h[1]].reloading = TRUE]
           ELSE /\ \E resp \in Responses :
                     calls' = [calls EXCEPT ![c] =
                       EvalEnd([call EXCEPT !.resp = resp],
                               IF calls[c].raw
                               THEN EvalInServiceWorkerRawResult(resp)
                               ELSE EvalInServiceWorkerResult(resp))]
                /\ UNCHANGED procs
    /\ UNCHANGED <<browser, extension, ctx, nBrowsers, launched,
                   popupCalled, popupPage>>
    /\ UNCHANGED logVars

\* reloadExtension: manager.getExtension(), then
\* ext.evalInServiceWorker('chrome.runtime.reload()')
ReloadBegin(c) ==
    /\ Free(c)
    /\ calls' = [calls EXCEPT ![c] =
         IF GetExtensionRes.kind = "err"
         THEN Done("reload_extension", GetExtensionRes)
         ELSE [IdleCall EXCEPT
                 !.op = "reload_extension", !.expr = ReloadTrigger,
                 !.k = extension, !.pre = ctx[extension].swCdp,
                 !.chan = IF ctx[extension].swCdp # <<>> THEN "" ELSE "nocache",
                 !.pc = IF ctx[extension].swCdp # <<>> THEN "probe"
                        ELSE "wake"]]
    /\ UNCHANGED <<browser, extension, ctx, procs, nBrowsers, launched,
                   popupCalled, popupPage>>
    /\ UNCHANGED logVars

\* await new Promise((r) => setTimeout(r, 2000)), then
\* ext.attachServiceWorker()
ReloadWait(c) ==
    /\ calls[c].pc = "reloadWait"
    /\ calls' = [calls EXCEPT ![c] =
         [calls[c] EXCEPT !.pc = "waitTarget", !.arg = "reattach"]]
    /\ UNCHANGED <<browser, extension, ctx, procs, nBrowsers, launched,
                   popupCalled, popupPage>>
    /\ UNCHANGED logVars

\* the runtime starts the worker of an extension that is reloading
WorkerRestarts(b) ==
    /\ IsLive(b)
    /\ procs[b].reloading
    /\ procs[b].wgen < MaxWorkerGen
    /\ procs' = [procs EXCEPT ![b].wgen = @ + 1, ![b].walive = TRUE,
                              ![b].wchan = 0, ![b].reloading = FALSE]
    /\ UNCHANGED <<browser, extension, ctx, nBrowsers, calls, launched,
                   popupCalled, popupPage>>
    /\ UNCHANGED logVars

(***************************************************************************)
(* Specifications of the session manager.                                  *)
(*   Spec:        one caller, whose calls follow each other                *)
(*   SpecOverlap: launch and close calls of several callers, overlapping   *)
(***************************************************************************)
NoGet == [called |-> FALSE, opts |-> <<>>, pre |-> <<>>, result |-> <<>>]

InitLog ==
    /\ entries = <<>>
    /\ networkEntries = <<>>
    /\ clock = 1
    /\ histC = <<>>
    /\ histN = <<>>
    /\ lastGet = NoGet

InitSession ==
    /\ browser = 0
    /\ extension = 0
    /\ ctx = <<>>
    /\ procs = [b \in Browsers |-> Unborn]
    /\ nBrowsers = 0
    /\ calls = [c \in Callers |-> IdleCall]
    /\ launched = FALSE
    /\ popupCalled = FALSE
    /\ popupPage = <<>>

Init == InitSession /\ InitLog

InitialUrls == {<<>>, WebUrl, BadUrl}

Next ==
    \/ \E dir \in Dirs, chrome \in BOOLEAN, url \in InitialUrls :
         LaunchBegin(1, dir, chrome, url)
    \/ CloseBegin(1)
    \/ CloseFinish(1)
    \/ LaunchBrowser(1)
    \/ LaunchDetect(1)
    \/ LaunchAttach(1)
    \/ LaunchFinish(1)
    \/ GetBrowser(1)
    \/ GetExtension(1)
    \/ GetActivePage(1)
    \/ \E t \in Targets : GetTargetPage(1, t)
    \/ \E b \in Browsers : BrowserDisconnects(b)

Spec == Init /\ [][Next]_vars

NextOverlap ==
    \/ \E c \in Callers, dir \in GoodDirs :
         LaunchBegin(c, dir, TRUE, <<>>)
    \/ \E c \in Callers : CloseBegin(c)
    \/ \E c \in Callers : CloseFinish(c)
    \/ \E c \in Callers : LaunchBrowser(c)
    \/ \E c \in Callers : LaunchDetect(c)
    \/ \E c \in Callers : LaunchAttach(c)
    \/ \E c \in Callers : LaunchFinish(c)
    \/ \E b \in Browsers : BrowserDisconnects(b)

SpecOverlap == Init /\ [][NextOverlap]_vars

(***************************************************************************)
(*   SpecPages: one caller that launches, opens the popup, navigates and   *)
(*   looks pages up, while the runtime stops and restarts the worker       *)
(***************************************************************************)
NextPages ==
    \/ \E dir \in GoodDirs : LaunchBegin(1, dir, TRUE, <<>>)
    \/ CloseFinish(1)
    \/ LaunchBrowser(1)
    \/ LaunchDetect(1)
    \/ LaunchAttach(1)
    \/ LaunchFinish(1)
    \/ \E t \in Targets : GetTargetPage(1, t)
    \/ OpenPopup(1)
    \/ \E url \in NavUrls, cn \in BOOLEAN, cc \in BOOLEAN : Navigate(1, url, cn, cc)
    \/ \E b \in Browsers : WorkerStops(b)

SpecPages == Init /\ [][NextPages]_vars

(***************************************************************************)
(*   SpecChannel: one caller that launches and evaluates expressions in    *)
(*   the worker, wrapped and raw, while the runtime stops the worker       *)
(***************************************************************************)
EvalExprs ==
    {<<"x">>,
     <<" ", "x", ";">>,
     <<"(", "async", " ", "x", ")">>}

NextChannel ==
    \/ \E dir \in GoodDirs : LaunchBegin(1, dir, TRUE, <<>>)
    \/ CloseFinish(1)
    \/ LaunchBrowser(1)
    \/ LaunchDetect(1)
    \/ LaunchAttach(1)
    \/ LaunchFinish(1)
    \/ \E raw \in BOOLEAN, expr \in EvalExprs : EvalBegin(1, raw, expr)
    \/ ChannelProbe(1)
    \/ ChannelWake(1)
    \/ ChannelAttach(1)
    \/ ChannelSession(1)
    \/ EvalSend(1)
    \/ \E b \in Browsers : WorkerStops(b)

SpecChannel == Init /\ [][NextChannel]_vars

(***************************************************************************)
(*   SpecReload: one session, whose caller evaluates in the worker, opens  *)
(*   the popup and reloads the extension, while the runtime stops and      *)
(*   restarts the worker                                                   *)
(***************************************************************************)
NextReload ==
    \/ \E dir \in GoodDirs : nBrowsers = 0 /\ LaunchBegin(1, dir, TRUE, <<>>)
    \/ LaunchBrowser(1)
    \/ LaunchDetect(1)
    \/ LaunchAttach(1)
    \/ LaunchFinish(1)
    \/ EvalBegin(1, FALSE, <<"x">>)
    \/ ReloadBegin(1)
    \/ OpenPopup(1)
    \/ ChannelProbe(1)
    \/ ChannelWake(1)
    \/ ChannelAttach(1)
    \/ ChannelSession(1)
    \/ EvalSend(1)
    \/ ReloadWait(1)
    \/ \E b \in Browsers : WorkerStops(b)
    \/ \E b \in Browsers : WorkerRestarts(b)

SpecReload == Init /\ [][NextReload]_vars

(***************************************************************************)
(*   SpecTargets: one session, whose caller opens the popup and uses the   *)
(*   tools that take a target, while the browser may go away               *)
(***************************************************************************)
NextTargets ==
    \/ \E dir \in GoodDirs : nBrowsers = 0 /\ LaunchBegin(1, dir, TRUE, <<>>)
    \/ LaunchBrowser(1)
    \/ LaunchDetect(1)
    \/ LaunchAttach(1)
    \/ LaunchFinish(1)
    \/ OpenPopup(1)
    \/ \E t \in Targets : Snapshot(1, t)
    \/ \E op \in TargetTools, t \in Targets : ActOnTarget(1, op, t)
    \/ \E b \in Browsers : BrowserDisconnects(b)

SpecTargets == Init /\ [][NextTargets]_vars

(***************************************************************************)
(*   SpecWrap: wrapExpression on every expression of up to MaxExprLen      *)
(*   tokens                                                                *)
(***************************************************************************)
ExprTokens == {" ", "(", ")", ";", "function", "return", "x"}
Exprs == UNION {[1..n -> ExprTokens] : n \in 0..MaxExprLen}

InitWrap ==
    /\ InitLog
    /\ browser = 0
    /\ extension = 0
    /\ ctx = <<>>
    /\ procs = [b \in Browsers |-> Unborn]
    /\ nBrowsers = 0
    /\ launched = FALSE
    /\ popupCalled = FALSE
    /\ popupPage = <<>>
    /\ \E e \in Exprs :
         calls = [c \in Callers |->
                    IF c = 1
                    THEN [IdleCall EXCEPT !.op = "wrapExpression", !.expr = e]
                    ELSE IdleCall]

NextWrap ==
    \/ WrapOnce(1)
    \/ Rewrap(1)

SpecWrap == InitWrap /\ [][NextWrap]_vars

(***************************************************************************)
(*   SpecDetect: launches whose identity discovery runs while the worker   *)
(*   may stop and the browser may go away; SpecDetectFair adds that every  *)
(*   bounded wait of a launch ends                                         *)
(***************************************************************************)
NextDetect ==
    \/ \E dir \in GoodDirs : LaunchBegin(1, dir, TRUE, <<>>)
    \/ CloseFinish(1)
    \/ LaunchBrowser(1)
    \/ LaunchDetect(1)
    \/ LaunchAttach(1)
    \/ LaunchFinish(1)
    \/ \E b \in Browsers : WorkerStops(b)
    \/ \E b \in Browsers : BrowserDisconnects(b)

SpecDetect == Init /\ [][NextDetect]_vars

SpecDetectFair ==
    /\ Init
    /\ [][NextDetect]_vars
    /\ WF_vars(CloseFinish(1))
    /\ WF_vars(LaunchBrowser(1))
    /\ WF_vars(LaunchDetect(1))
    /\ WF_vars(LaunchAttach(1))
    /\ WF_vars(LaunchFinish(1))


(***************************************************************************)
(* ConsoleCollector and the network log.                                   *)
(* A console entry is [timestamp, source, level, text]; the text is the    *)
(* number of the add that made it.                                         *)
(***************************************************************************)
MAX_ENTRIES == 1000
NET_MAX     == 1000

Levels == {"debug", "log", "info", "warn", "error"}

\* add(): push, then slice(-MAX_ENTRIES) when the length exceeds MAX_ENTRIES
ConsolePushKeepOldest(buf, e) ==
    IF Len(buf) + 1 > MAX_ENTRIES THEN buf ELSE Append(buf, e)
ConsolePush(buf, e) ==
    IF Len(Append(buf, e)) > MAX_ENTRIES
    THEN SliceLast(Append(buf, e), MAX_ENTRIES)
    ELSE Append(buf, e)

\* the Network.responseReceived listener: push, then slice(-1000)
NetworkPush(buf, e) ==
    IF Len(Append(buf, e)) > NET_MAX
    THEN SliceLast(Append(buf, e), NET_MAX)
    ELSE Append(buf, e)

\* levelAndAbove: order.slice(order.indexOf(level)), the whole order when the
\* level is not in it
LevelOrder == <<"debug", "log", "info", "warn", "error">>
IndexOf(s, x) ==
    IF \E i \in 1..Len(s) : s[i] = x
    THEN CHOOSE i \in 1..Len(s) : s[i] = x /\ \A j \in 1..(i - 1) : s[j] # x
    ELSE 0
LevelOnly(level) ==
    IF IndexOf(LevelOrder, level) > 0 THEN <<level>> ELSE LevelOrder
LevelAndAbove(level) ==
    IF IndexOf(LevelOrder, level) > 0
    THEN SubSeq(LevelOrder, IndexOf(LevelOrder, level), Len(LevelOrder))
    ELSE LevelOrder

\* getEntries options: since 0, source "", level "" and limit 0 are the
\* falsy values the code skips (an option not given included)
GetEntriesLimitFirst(buf, opts) ==
    LET AtOrAfter(e) == e.timestamp >= opts.since
        FromSource(e) == e.source = opts.source
        Severe(e)     == Includes(LevelAndAbove(opts.level), e.level)
        r1 == IF opts.since # 0 THEN SelectSeq(buf, AtOrAfter) ELSE buf
        r2 == IF opts.source # "" THEN SelectSeq(r1, FromSource) ELSE r1
        r3 == IF opts.limit # 0 /\ opts.limit > 0
              THEN SliceLast(r2, opts.limit) ELSE r2
    IN  IF opts.level # "" THEN SelectSeq(r3, Severe) ELSE r3
GetEntriesResult(buf, opts) ==
    LET AtOrAfter(e) == e.timestamp >= opts.since
        FromSource(e) == e.source = opts.source
        Severe(e)     == Includes(LevelAndAbove(opts.level), e.level)
        r1 == IF opts.since # 0 THEN SelectSeq(buf, AtOrAfter) ELSE buf
        r2 == IF opts.source # "" THEN SelectSeq(r1, FromSource) ELSE r1
        r3 == IF opts.level # "" THEN SelectSeq(r2, Severe) ELSE r2
    IN  IF opts.limit # 0 /\ opts.limit > 0
        THEN SliceLast(r3, opts.limit) ELSE r3

\* getEntries: if (opts?.clear) this.entries = []
EntriesAfterGetDropReturned(buf, opts) ==
    LET Returned(e) == \E i \in 1..Len(GetEntriesResult(buf, opts)) :
                          GetEntriesResult(buf, opts)[i] = e
        Kept(e)     == ~Returned(e)
    IN  IF opts.clear THEN SelectSeq(buf, Kept) ELSE buf
EntriesAfterGet(buf, opts) ==
    IF opts.clear THEN <<>> ELSE buf

\* ConsoleCollector.add at time clock + dt
ConsoleAdd(source, level, dt) ==
    LET e == [timestamp |-> clock + dt, source |-> source, level |-> level,
              text |-> Len(histC) + 1, url |-> <<>>]
    IN  /\ entries' = ConsolePush(entries, e)
        /\ histC' = Append(histC, e)
        /\ clock' = clock + dt
        /\ lastGet' = NoGet
        /\ UNCHANGED <<networkEntries, histN>>
        /\ UNCHANGED sessionVars

\* LEVEL_MAP and toLevel: LEVEL_MAP[raw] ?? 'log'.  RawTypes are types of the
\* protocol's console events: those of the table and three outside it.
RawTypes ==
    {"log", "info", "warn", "warning", "error", "debug", "verbose", "dir",
     "table", "trace", "assert", "dirxml", "clear", "startGroup"}
ToLevelRaw(raw) == raw
ToLevel(raw) ==
    CASE raw = "log"     -> "log"
      [] raw = "info"    -> "info"
      [] raw = "warn"    -> "warn"
      [] raw = "warning" -> "warn"
      [] raw = "error"   -> "error"
      [] raw = "debug"   -> "debug"
      [] raw = "verbose" -> "debug"
      [] raw = "dir"     -> "log"
      [] raw = "table"   -> "log"
      [] raw = "trace"   -> "debug"
      [] raw = "assert"  -> "error"
      [] OTHER           -> "log"

\* the listeners of attachToPage and attachToWorker: the level an event is
\* recorded at; kind is "console", "pageerror" or "exception"
EventLevel(kind, raw) == IF kind = "console" THEN ToLevel(raw) ELSE "error"

\* the browser opens a tab by itself (window.open, a link with a target)
NewTab(b) ==
    /\ IsLive(b)
    /\ Len(procs[b].pages) < MaxPages
    /\ procs' = [procs EXCEPT ![b] = PageCreated(@, WebUrl, FALSE)]
    /\ UNCHANGED <<browser, extension, ctx, nBrowsers, calls, launched,
                   popupCalled, popupPage>>
    /\ UNCHANGED logVars

\* the targetcreated listener of launch, after its await: attachToPage
TargetCreated(b) ==
    /\ IsLive(b)
    /\ \E i \in procs[b].pend :
         procs' = [procs EXCEPT ![b].pend = @ \ {i}, ![b].con = @ \cup {i}]
    /\ UNCHANGED <<browser, extension, ctx, nBrowsers, calls, launched,
                   popupCalled, popupPage>>
    /\ UNCHANGED logVars

\* page i of the session's browser writes to its console or throws; the text
\* of the message names its kind or type, and its number
PageEmits(i, kind, raw) ==
    /\ launched
    /\ IsLive(browser)
    /\ i \in 1..Len(procs[browser].pages)
    /\ Len(histC) < MaxEmits
    /\ LET e == [timestamp |-> clock, source |-> "page",
                 level |-> EventLevel(kind, raw),
                 text |-> <<IF kind = "console" THEN raw ELSE kind,
                            Len(histC) + 1>>,
                 url |-> procs[browser].pages[i]]
       IN  /\ histC' = Append(histC, e)
           /\ entries' = IF i \in procs[browser].con
                         THEN ConsolePush(entries, e)
                         ELSE entries
    /\ UNCHANGED <<networkEntries, clock, histN, lastGet>>
    /\ UNCHANGED sessionVars

\* a Network.responseReceived event
NetworkAdd(method, status) ==
    LET e == [timestamp |-> clock, method |-> method, url |-> WebUrl,
              status |-> status, size |-> Len(histN) + 1]
    IN  /\ networkEntries' = NetworkPush(networkEntries, e)
        /\ histN' = Append(histN, e)
        /\ UNCHANGED <<entries, histC, clock, lastGet>>
        /\ UNCHANGED sessionVars

\* a response arrives on page i of the session's browser: the
\* Network.responseReceived listener of that page, when there is one, pushes
\* an entry
ResponseReceived(i, status) ==
    /\ launched
    /\ IsLive(browser)
    /\ i \in 1..Len(procs[browser].pages)
    /\ Len(histN) < MaxAdds
    /\ LET e == [timestamp |-> clock, method |-> "GET",
                 url |-> procs[browser].pages[i], status |-> status,
                 size |-> Len(histN) + 1]
       IN  /\ histN' = Append(histN, e)
           /\ networkEntries' = IF i \in procs[browser].net
                                THEN NetworkPush(networkEntries, e)
                                ELSE networkEntries
    /\ UNCHANGED <<entries, clock, histC, lastGet>>
    /\ UNCHANGED sessionVars

(***************************************************************************)
(*   SpecNet: one caller that launches and opens the popup, while          *)
(*   responses arrive on the session's pages                               *)
(***************************************************************************)
NextNet ==
    \/ \E dir \in GoodDirs : LaunchBegin(1, dir, TRUE, <<>>)
    \/ CloseFinish(1)
    \/ LaunchBrowser(1)
    \/ LaunchDetect(1)
    \/ LaunchAttach(1)
    \/ LaunchFinish(1)
    \/ OpenPopup(1)
    \/ \E i \in 1..MaxPages : ResponseReceived(i, 200)

SpecNet == Init /\ [][NextNet]_vars

\* add() called by each of n listeners
RECURSIVE PushTimes(_, _, _)
PushTimes(buf, e, n) ==
    IF n = 0 THEN buf ELSE PushTimes(ConsolePush(buf, e), e, n - 1)

\* the running worker of the session's browser writes to its console or
\* throws: Runtime.consoleAPICalled / Runtime.exceptionThrown reach the
\* listeners of every debug channel attachToWorker was called on
WorkerEmits(kind, raw) ==
    /\ launched
    /\ IsLive(browser)
    /\ procs[browser].walive
    /\ Len(histC) < MaxEmits
    /\ LET e == [timestamp |-> clock, source |-> "service-worker",
                 level |-> EventLevel(kind, raw),
                 text |-> <<IF kind = "console" THEN raw ELSE kind,
                            Len(histC) + 1>>,
                 url |-> ExtUrl(IdOf(procs[browser].dir), <<"sw", ".js">>)]
       IN  /\ histC' = Append(histC, e)
           /\ entries' = PushTimes(entries, e, procs[browser].wchan)
    /\ UNCHANGED <<networkEntries, clock, histN, lastGet>>
    /\ UNCHANGED sessionVars

(***************************************************************************)
(*   SpecRace: one session, in which several callers evaluate in the       *)
(*   worker at once and one reloads the extension, while the runtime stops *)
(*   and restarts the worker and the worker writes to its console          *)
(***************************************************************************)
NextRace ==
    \/ nBrowsers = 0 /\ LaunchBegin(1, "extA", TRUE, <<>>)
    \/ LaunchBrowser(1)
    \/ LaunchDetect(1)
    \/ LaunchAttach(1)
    \/ LaunchFinish(1)
    \/ \E c \in Callers : launched /\ EvalBegin(c, TRUE, <<"x">>)
    \/ launched /\ ReloadBegin(1)
    \/ \E c \in Callers : ChannelProbe(c)
    \/ \E c \in Callers : ChannelWake(c)
    \/ \E c \in Callers : ChannelAttach(c)
    \/ \E c \in Callers : ChannelSession(c)
    \/ \E c \in Callers : EvalSend(c)
    \/ ReloadWait(1)
    \/ \E b \in Browsers : WorkerStops(b)
    \/ \E b \in Browsers : WorkerRestarts(b)
    \/ WorkerEmits("console", "log")

SpecRace == Init /\ [][NextRace]_vars

(***************************************************************************)
(*   SpecLevels: one session, whose page and worker emit console events    *)
(*   of every type, and errors                                             *)
(***************************************************************************)
NextLevels ==
    \/ nBrowsers = 0 /\ LaunchBegin(1, "extA", TRUE, <<>>)
    \/ LaunchBrowser(1)
    \/ LaunchDetect(1)
    \/ LaunchAttach(1)
    \/ LaunchFinish(1)
    \/ \E raw \in RawTypes : PageEmits(1, "console", raw)
    \/ PageEmits(1, "pageerror", "")
    \/ \E raw \in RawTypes : WorkerEmits("console", raw)
    \/ WorkerEmits("exception", "")

SpecLevels == Init /\ [][NextLevels]_vars

\* clearNetworkEntries() / getConsole().clear(), under its flag
ClearedAlways(flag, buf) == <<>>
ClearedIf(flag, buf) == IF flag THEN <<>> ELSE buf

\* navigate up to its first await: the two clears, then getActivePage(),
\* whose getBrowser() may throw.  mark is how many console events and
\* responses there had been.
NavigateStart(c, url, clearNetwork, clearConsole) ==
    /\ Free(c)
    /\ networkEntries' = ClearedIf(clearNetwork, networkEntries)
    /\ entries' = ClearedIf(clearConsole, entries)
    /\ LET call == [IdleCall EXCEPT
                      !.op = "navigate", !.url = url,
                      !.clr = <<clearNetwork, clearConsole>>,
                      !.mark = <<Len(histN), Len(histC)>>]
       IN  calls' = [calls EXCEPT ![c] =
             IF GetBrowserRes.kind = "err"
             THEN Finished(call, GetBrowserRes)
             ELSE [call EXCEPT !.pc = "goto"]]
    /\ UNCHANGED <<browser, extension, ctx, procs, nBrowsers, launched,
                   popupCalled, popupPage>>
    /\ UNCHANGED <<clock, histC, histN, lastGet>>

\* the rest of navigate: browser.pages(), page.goto(url), page.title()
NavigateEnd(c) ==
    /\ calls[c].pc = "goto"
    /\ IF browser = 0 \/ ~HasPage(procs[browser]) \/ calls[c].url = BadUrl
       THEN /\ calls' = [calls EXCEPT ![c] = Finished(calls[c], Err(NavFail))]
            /\ UNCHANGED <<procs, popupPage>>
       ELSE \E wake \in BOOLEAN :
              LET b  == browser
                  n  == Len(procs[b].pages)
                  p1 == [procs[b] EXCEPT !.pages[n] = calls[c].url]
                  p2 == IF StartsWith(calls[c].url, ExtPrefix(IdOf(p1.dir)))
                        THEN Woken(p1, IdOf(p1.dir), wake)
                        ELSE p1
              IN  /\ procs' = [procs EXCEPT ![b] = p2]
                  /\ popupPage' = IF popupPage = <<b, n>> THEN <<>> ELSE popupPage
                  /\ calls' = [calls EXCEPT ![c] =
                       Finished(calls[c], Ok(<<"page", b, n>>))]
    /\ UNCHANGED <<browser, extension, ctx, nBrowsers, launched, popupCalled>>
    /\ UNCHANGED logVars

(***************************************************************************)
(*   SpecNavigate: one session, whose caller navigates with and without    *)
(*   the clear flags, while the pages write to their consoles and receive  *)
(*   responses                                                             *)
(***************************************************************************)
NextNavigate ==
    \/ nBrowsers = 0 /\ LaunchBegin(1, "extA", TRUE, <<>>)
    \/ LaunchBrowser(1)
    \/ LaunchDetect(1)
    \/ LaunchAttach(1)
    \/ LaunchFinish(1)
    \/ \E url \in {WebUrl, BadUrl}, cn \in BOOLEAN, cc \in BOOLEAN :
         NavigateStart(1, url, cn, cc)
    \/ NavigateEnd(1)
    \/ PageEmits(1, "console", "log")
    \/ ResponseReceived(1, 200)

SpecNavigate == Init /\ [][NextNavigate]_vars

(***************************************************************************)
(*   SpecConsole: one session, whose caller opens the popup, while the     *)
(*   browser opens tabs and pages write to their consoles;                 *)
(*   SpecConsoleFair adds that the targetcreated listener, once called,    *)
(*   gets to run                                                           *)
(***************************************************************************)
PageEvents == {<<"console", "warning">>, <<"pageerror", "">>}

NextConsole ==
    \/ nBrowsers = 0 /\ LaunchBegin(1, "extA", TRUE, <<>>)
    \/ LaunchBrowser(1)
    \/ LaunchDetect(1)
    \/ LaunchAttach(1)
    \/ LaunchFinish(1)
    \/ OpenPopup(1)
    \/ \E b \in Browsers : NewTab(b)
    \/ \E b \in Browsers : TargetCreated(b)
    \/ \E i \in 1..MaxPages, ev \in PageEvents : PageEmits(i, ev[1], ev[2])

SpecConsole == Init /\ [][NextConsole]_vars

SpecConsoleFair ==
    /\ Init
    /\ [][NextConsole]_vars
    /\ \A b \in Browsers : WF_vars(TargetCreated(b))

GetEntries(opts) ==
    /\ ~lastGet.called
    /\ lastGet' = [called |-> TRUE, opts |-> opts, pre |-> entries,
                   result |-> GetEntriesResult(entries, opts)]
    /\ entries' = EntriesAfterGet(entries, opts)
    /\ UNCHANGED <<networkEntries, clock, histC, histN>>
    /\ UNCHANGED sessionVars

\* the caller of getEntries is done with the array it was given
GetEntriesReturn ==
    /\ lastGet.called
    /\ lastGet' = NoGet
    /\ UNCHANGED <<entries, networkEntries, clock, histC, histN>>
    /\ UNCHANGED sessionVars

(***************************************************************************)
(*   SpecLog:  a collector that starts empty; adds and getEntries calls    *)
(*   SpecRing: both buffers one entry short of their capacity; adds        *)
(***************************************************************************)
Sinces == {0, 3}
Limits == 0..MaxLimit
GetOptions ==
    [since : Sinces, source : {"", "page"}, level : Levels \cup {""},
     limit : Limits, clear : BOOLEAN]

\* what is added: page output of every level, worker warnings and errors
AddKinds ==
    ({"page"} \X Levels) \cup ({"service-worker"} \X {"warn", "error"})

NextLog ==
    \/ /\ Len(histC) < MaxAdds
       /\ \E kind \in AddKinds : ConsoleAdd(kind[1], kind[2], 1)
    \/ \E opts \in GetOptions : GetEntries(opts)
    \/ GetEntriesReturn

SpecLog == Init /\ [][NextLog]_vars

PrefilledConsole(n) ==
    [i \in 1..n |->
        [timestamp |-> 1, source |-> "page", level |-> "log", text |-> i,
         url |-> <<>>]]
PrefilledNetwork(n) ==
    [i \in 1..n |->
        [timestamp |-> 1, method |-> "GET", url |-> WebUrl, status |-> 200,
         size |-> i]]

InitRing ==
    /\ InitSession
    /\ entries = PrefilledConsole(MAX_ENTRIES - 1)
    /\ histC = PrefilledConsole(MAX_ENTRIES - 1)
    /\ networkEntries = PrefilledNetwork(NET_MAX - 1)
    /\ histN = PrefilledNetwork(NET_MAX - 1)
    /\ clock = 1
    /\ lastGet = NoGet

NextRing ==
    \/ /\ Len(histC) < MAX_ENTRIES + MaxOver
       /\ \E lvl \in {"log", "error"} : ConsoleAdd("page", lvl, 1)
    \/ /\ Len(histN) < NET_MAX + MaxOver
       /\ \E status \in {200, 404} : NetworkAdd("GET", status)

SpecRing == InitRing /\ [][NextRing]_vars

(***************************************************************************)
(* extensionErrors: the report of the extensions page and of the worker's  *)
(* recent errors.                                                          *)
(***************************************************************************)
\* getEntries({ level: 'error', limit: 20 })
ErrorsLimit == 20
ErrorsOpts ==
    [since |-> 0, source |-> "", level |-> "error", limit |-> ErrorsLimit,
     clear |-> FALSE]

\* consoleErrors.filter((e) => e.source === 'service-worker').map(...): the
\* ISO form of the timestamp and the text of each entry left
SwErrorsOf(consoleErrors) ==
    LET OfWorker(e) == e.source = "service-worker"
        kept == SelectSeq(consoleErrors, OfWorker)
    IN  [i \in 1..Len(kept) |->
            [timestamp |-> <<"iso", kept[i].timestamp>>,
             message |-> kept[i].text]]

\* page.close() of page i of browser state p
PageClosed(p, i) ==
    LET Down(S) == {IF j > i THEN j - 1 ELSE j : j \in S \ {i}}
    IN  [p EXCEPT
           !.pages = [j \in 1..(Len(p.pages) - 1) |->
                        IF j < i THEN p.pages[j] ELSE p.pages[j + 1]],
           !.con = Down(@), !.pend = Down(@), !.net = Down(@)]

\* manager.getBrowser(), manager.getExtension(), await browser.newPage()
ExtensionErrorsBegin(c) ==
    /\ Free(c)
    /\ browser # 0 => Len(procs[browser].pages) < MaxPages
    /\ IF GetBrowserRes.kind = "err"
       THEN /\ calls' = [calls EXCEPT ![c] =
                 Done("extension_errors", GetBrowserRes)]
            /\ UNCHANGED procs
       ELSE IF GetExtensionRes.kind = "err"
       THEN /\ calls' = [calls EXCEPT ![c] =
                 Done("extension_errors", GetExtensionRes)]
            /\ UNCHANGED procs
       ELSE /\ procs' = [procs EXCEPT ![browser] =
                 PageCreated(@, AboutBlank, TRUE)]
            /\ calls' = [calls EXCEPT ![c] =
                 [IdleCall EXCEPT !.op = "extension_errors",
                                  !.pc = "errorsPage", !.k = extension,
                                  !.mine = browser,
                                  !.tgt = Len(procs[browser].pages) + 1]]
    /\ UNCHANGED <<browser, extension, ctx, nBrowsers, launched,
                   popupCalled, popupPage>>
    /\ UNCHANGED logVars

\* page.goto('chrome://extensions'), the wait, page.evaluate(...).catch(...)
\* and page.close(); then getEntries, the filter and the report.  A goto
\* that rejects, or a browser that has gone, ends in the catch, which
\* returns the text of the failure.
ExtensionErrorsFinish(c) ==
    /\ calls[c].pc = "errorsPage"
    /\ LET b == calls[c].mine
           i == calls[c].tgt
       IN  \E gotoOk \in BOOLEAN, found \in BOOLEAN :
             IF ~IsLive(b) \/ ~gotoOk
             THEN /\ calls' = [calls EXCEPT ![c] =
                       Finished(calls[c], Ok(<<"Failed to check extension errors">>))]
                  /\ procs' = IF IsLive(b)
                              THEN [procs EXCEPT ![b] = PageClosed(@, i)]
                              ELSE procs
                  /\ UNCHANGED lastGet
             ELSE /\ procs' = [procs EXCEPT ![b] = PageClosed(@, i)]
                  /\ lastGet' = [called |-> TRUE, opts |-> ErrorsOpts,
                                 pre |-> entries,
                                 result |-> GetEntriesResult(entries, ErrorsOpts)]
                  /\ calls' = [calls EXCEPT ![c] =
                       Finished(calls[c],
                         Ok(<<"report",
                              IF found THEN ctx[calls[c].k].info.id ELSE "",
                              SwErrorsOf(GetEntriesResult(entries, ErrorsOpts))>>))]
    /\ UNCHANGED <<browser, extension, ctx, nBrowsers, launched,
                   popupCalled, popupPage>>
    /\ UNCHANGED <<entries, networkEntries, clock, histC, histN>>

(***************************************************************************)
(*   SpecErrors: one session, whose pages and worker log errors and whose  *)
(*   caller asks for the report                                            *)
(***************************************************************************)
WorkerErrorsIn(buf) ==
    LET OfWorker(e) == e.source = "service-worker" /\ e.level = "error"
    IN  SelectSeq(buf, OfWorker)

NextErrors ==
    \/ nBrowsers = 0 /\ LaunchBegin(1, "extA", TRUE, <<>>)
    \/ LaunchBrowser(1)
    \/ LaunchDetect(1)
    \/ LaunchAttach(1)
    \/ LaunchFinish(1)
    \/ /\ launched /\ IsLive(browser)
       /\ Len(histC) < ErrorsLimit + MaxOver
       /\ ConsoleAdd("page", "error", 1)
    \/ /\ launched /\ IsLive(browser)
       /\ Len(histC) < ErrorsLimit + MaxOver
       /\ Len(WorkerErrorsIn(histC)) < MaxOver
       /\ ConsoleAdd("service-worker", "error", 1)
    \/ ExtensionErrorsBegin(1)
    \/ ExtensionErrorsFinish(1)

SpecErrors == Init /\ [][NextErrors]_vars

(***************************************************************************)
(* Properties of the session manager.                                      *)
(***************************************************************************)
Accessors == {"getBrowser", "getExtension", "getActivePage", "getTargetPage"}

\* C1: whenever no call is in flight, the browser handle and the extension
\* identity are both present or both absent.
C1_PairConsistent ==
    Quiet => ((browser = 0) <=> (extension = 0))

\* C2: a launch that follows another starts its browser only when no earlier
\* browser is live, and when it has returned the manager's browser, the
\* context getExtension() yields, that context's browser and its identity
\* (id, name, version, manifest path) are all those of this launch.
C2_SecondLaunchOnly ==
    \A c \in Callers :
        calls[c].op = "launch" =>
            /\ calls[c].liveBefore = {}
            /\ (calls[c].pc = "done" /\ calls[c].res.kind = "ok") =>
                  /\ browser = calls[c].mine
                  /\ LiveSet \subseteq {calls[c].mine}
                  /\ GetExtensionRes = Ok(<<"ext", calls[c].k>>)
                  /\ ctx[calls[c].k].browser = calls[c].mine
                  /\ ctx[calls[c].k].info =
                        InfoOf(calls[c].dir, IdOf(calls[c].dir))
                  /\ calls[c].res.val = <<"info", ctx[calls[c].k].info>>

\* a second launch has returned, after a first one that built the session of
\* another extension
C2_Witness ==
    /\ calls[1].op = "launch" /\ calls[1].pc = "done" /\ calls[1].res.kind = "ok"
    /\ calls[1].mine = 2
    /\ Len(ctx) = 2
    /\ ctx[1].info.id # ctx[2].info.id
    /\ ctx[1].info.name # ctx[2].info.name

\* C3: at most one browser started by the manager is live, every live browser
\* is the one the manager refers to, and the context a launch built is bound
\* to the browser that launch started -- for overlapping launch calls too.
C3_AtMostOneLive ==
    /\ Cardinality(LiveSet) <= 1
    /\ \A b \in LiveSet : b = browser
    /\ \A c \in Callers :
          (calls[c].op = "launch" /\ calls[c].k # 0) =>
              ctx[calls[c].k].browser = calls[c].mine

\* C8: close() never fails; called when no session exists it changes nothing
\* (so a second close directly after a close changes nothing either); called
\* on a session, also one whose connection is already closed, it clears the
\* browser handle and the extension identity together.
C8_CloseReturned ==
    (calls[1].op = "close" /\ calls[1].pc = "done") =>
        /\ calls[1].res.kind = "ok"
        /\ browser = 0
        /\ extension = 0
C8_CloseStep ==
    (calls'[1] # calls[1] /\ calls'[1].op = "close" /\ Free(1) /\ browser = 0) =>
        /\ calls'[1] = Done("close", Ok(<<>>))
        /\ UNCHANGED <<browser, extension, ctx, procs, nBrowsers, launched>>
C8_CloseIdempotent == [](C8_CloseReturned) /\ [][C8_CloseStep]_vars

\* close() has returned normally from a session whose browser had already
\* gone and whose Browser.close() rejected
C8_Witness ==
    /\ calls[1].op = "close" /\ calls[1].pc = "done"
    /\ calls[1].arg = "close rejected"
    /\ calls[1].res.kind = "ok"
    /\ Len(ctx) > 0
    /\ browser = 0 /\ extension = 0

\* C9: while no launch has succeeded since the start or since the last close,
\* every accessor call fails with BrowserNotLaunched.
C9_AccessorsFailBeforeLaunch ==
    (~launched /\ calls[1].op \in Accessors /\ calls[1].pc = "done") =>
        calls[1].res = Err(BNL)

\* C10: while open_popup has not been called (and the caller has not brought
\* up the popup document by navigating to it) getTargetPage('popup') returns
\* no page, and while the page open_popup opened shows the manifest's popup
\* document getTargetPage('popup') returns a page showing that document.
PopupDocumentOpen ==
    /\ extension # 0
    /\ IsLive(browser)
    /\ \E i \in 1..Len(procs[browser].pages) :
          procs[browser].pages[i] =
              ExtUrl(IdOf(procs[browser].dir), ManifestOf(procs[browser].dir).popup)
PopupPageShown ==
    /\ popupPage # <<>>
    /\ extension # 0
    /\ browser = popupPage[1]
    /\ Connected(browser)
    /\ procs[browser].pages[popupPage[2]] =
          ExtUrl(ctx[extension].info.id, ManifestOf(procs[browser].dir).popup)
C10_PopupLookup ==
    /\ (~popupCalled /\ ~PopupDocumentOpen) =>
          GetTargetPageRes("popup").kind = "err"
    /\ PopupPageShown =>
          /\ GetTargetPageRes("popup").kind = "ok"
          /\ procs[browser].pages[GetTargetPageRes("popup").val[3]] =
                procs[browser].pages[popupPage[2]]

C19_Attempts ==
    \A c \in Callers :
        calls[c].op = "launch" =>
            /\ Len(calls[c].tried) <= 4
            /\ \A i, j \in 1..Len(calls[c].tried) :
                  i # j => calls[c].tried[i] # calls[c].tried[j]
            /\ (calls[c].pc = "done" /\ calls[c].res = Err(NoExtId)) =>
                  /\ calls[c].by = 0
                  /\ calls[c].strat = 4
                  /\ \A s \in 1..4 :
                        (\E i \in 1..Len(calls[c].tried) : calls[c].tried[i] = s)
                        \/ (s \in {3, 4} /\ ~HasPage(procs[calls[c].mine]))
C19_Discovering == calls[1].op = "launch" /\ calls[1].pc = "detect"
C19_Discovered ==
    /\ calls[1].op = "launch"
    /\ \/ calls[1].pc = "done" /\ calls[1].res = Err(NoExtId)
       \/ calls[1].by # 0
C19_DiscoveryEnds ==
    /\ [](C19_Attempts)
    /\ (C19_Discovering ~> C19_Discovered)
    /\ ((calls[1].op = "launch" /\ calls[1].pc # "done") ~> (calls[1].pc = "done"))

\* a launch has failed after all four strategies, on a running browser
C19_Witness ==
    /\ calls[1].op = "launch" /\ calls[1].pc = "done"
    /\ calls[1].res = Err(NoExtId)
    /\ calls[1].tried = <<1, 2, 3, 4>>
    /\ IsLive(calls[1].mine)


(***************************************************************************)
(* Properties of the execution channel and of the handlers.                *)
(***************************************************************************)
\* C11: getWorkerCDP never raises; the handle it returns was probed or
\* attached in this call; after a failed probe the cached handle and target
\* are null before the wake and the re-attach; and when wake and attach
\* produce no channel it returns null.
C11_ChannelNeverRaises ==
    \A c \in Callers :
        calls[c].op \in EvalOps =>
            /\ calls[c].chan # "raised"
            /\ calls[c].pc = "send" =>
                  /\ calls[c].cdp # <<>>
                  /\ calls[c].chan \in {"probed", "attached"}
            /\ (calls[c].chan = "dropped" /\ calls[c].pc \in {"wake", "waitTarget"}) =>
                  /\ ctx[calls[c].k].swCdp = <<>>
                  /\ ctx[calls[c].k].swTarget = <<>>
            /\ calls[c].chan = "null" => calls[c].res = Err(SwNA)

\* C12: an answer with exception details makes evalInServiceWorker fail with
\* the exception's description, else its text; an answer of type undefined
\* makes it return the no-value sentinel; any other answer its value; and no
\* value is returned when exception details are present.
C12_EvalOutcome ==
    \A c \in Callers :
        (/\ calls[c].op = "evalInServiceWorker" /\ calls[c].pc = "done"
         /\ calls[c].resp # NoResp) =>
            LET r == calls[c].resp
            IN  /\ (r.exc /\ r.desc # "") => calls[c].res = Err(r.desc)
                /\ (r.exc /\ r.desc = "" /\ r.text # "") =>
                      calls[c].res = Err(r.text)
                /\ r.exc => calls[c].res.kind = "err"
                /\ (~r.exc /\ r.type = "undefined") =>
                      calls[c].res = Ok(<<"undefined">>)
                /\ (~r.exc /\ r.type # "undefined") =>
                      calls[c].res = Ok(<<r.value>>)

\* the engine reported an exception that has a text and no description, and
\* a value beside it
C12_Witness ==
    /\ calls[1].op = "evalInServiceWorker" /\ calls[1].pc = "done"
    /\ calls[1].resp.exc
    /\ calls[1].resp.desc = ""
    /\ calls[1].resp.value = "v"
    /\ calls[1].res = Err("Uncaught")

\* C13: every failure a handler reports carries a code and a message.
C13_ErrorsCarryCode ==
    \A c \in Callers :
        calls[c].out.isError =>
            /\ Len(calls[c].out.text) = 4
            /\ calls[c].out.text[1] = "["
            /\ calls[c].out.text[2] # ""
            /\ calls[c].out.text[4] # ""

\* C14: a handler whose operation has ended has returned a result; the error
\* did not escape; the result of a failed operation has isError set and the
\* text of formatError, that of a successful one is not an error.
C14_HandlersCatch ==
    \A c \in Callers :
        (calls[c].op \in ToolOps /\ calls[c].pc = "done") =>
            /\ calls[c].out.returned
            /\ ~calls[c].out.escaped
            /\ calls[c].res.kind = "err" =>
                  /\ calls[c].out.isError
                  /\ calls[c].out.text = FormatError(calls[c].res)
            /\ calls[c].res.kind = "ok" => ~calls[c].out.isError

\* the error of a protocol call that rejected inside getWorkerCDP has come
\* back from the handler as a failure result
C14_Witness ==
    /\ calls[1].op \in EvalOps /\ calls[1].pc = "done"
    /\ calls[1].chan = "raised"
    /\ calls[1].out.returned /\ calls[1].out.isError
    /\ calls[1].out.text = <<TargetClosed>>

\* C17: for the same answer of the engine the two methods return or fail
\* alike, both fail alike without a channel, the raw one submits the
\* expression as given, and for an expression of self-invoking async shape
\* both submit the same text.
C17_RawSameContract ==
    \A c \in Callers :
        (calls[c].op \in EvalOps /\ calls[c].pc = "done") =>
            /\ calls[c].resp # NoResp =>
                  calls[c].res = IF calls[c].raw
                                 THEN EvalInServiceWorkerResult(calls[c].resp)
                                 ELSE EvalInServiceWorkerRawResult(calls[c].resp)
            /\ calls[c].chan = "null" => calls[c].res = Err(SwNA)
            /\ (calls[c].raw /\ calls[c].chan \in {"probed", "attached"}) =>
                  calls[c].sent = calls[c].expr
            /\ (IsIIFE(calls[c].expr) /\ calls[c].chan \in {"probed", "attached"}) =>
                  calls[c].sent = calls[c].expr

\* the raw method has failed with the description of the engine's exception
\* for an expression of self-invoking shape
C17_Witness ==
    /\ calls[1].op = "evalInServiceWorkerRaw" /\ calls[1].pc = "done"
    /\ IsIIFE(calls[1].expr)
    /\ calls[1].resp.exc /\ calls[1].resp.desc # ""
    /\ calls[1].res = Err(calls[1].resp.desc)


\* C20: after a successful launch every response received on a page of the
\* session, whether the page was open at launch or was opened afterwards, is
\* in the recorder, in the order received.
C20_EveryPageObserved ==
    (launched /\ IsLive(browser)) => networkEntries = histN


\* C21 as stated: after a successful launch every console message and
\* uncaught error of a page of the session, open at launch or created later,
\* is eventually recorded in the Log Collector.
C21_EveryMessageRecorded ==
    \A n \in 1..MaxEmits :
        (\E j \in 1..Len(histC) : histC[j].text[2] = n)
            ~> (\E j \in 1..Len(entries) : entries[j].text[2] = n)

\* the messages of the pages that were open at launch or that a tool opened
OfWatchedFromStart(s) ==
    LET NotSelfOpened(e) == e.url # WebUrl
    IN  SelectSeq(s, NotSelfOpened)

\* C21, amended: after a successful launch every page of the session, open
\* at launch or created later, has the Log Collector attached or is about to
\* (and then eventually has); every message of a page that was open at
\* launch or was opened by a tool is recorded, and what is recorded of the
\* tabs the browser opened by itself is among what they emitted.
C21_EveryPageAttached ==
    /\ [](launched /\ IsLive(browser) =>
            /\ \A i \in 1..Len(procs[browser].pages) :
                  i \in procs[browser].con \cup procs[browser].pend
            /\ OfWatchedFromStart(entries) = OfWatchedFromStart(histC)
            /\ \A j \in 1..Len(entries) :
                  \E k \in 1..Len(histC) : histC[k] = entries[j])
    /\ \A i \in 1..MaxPages :
          (launched /\ IsLive(browser) /\ i \in procs[browser].pend)
              ~> (~launched \/ ~IsLive(browser) \/ i \in procs[browser].con)

\* a tab the browser opened by itself has got the collector and a message
\* of it is recorded, next to a message of the page open at launch
C21_Witness ==
    /\ launched /\ IsLive(browser)
    /\ Len(procs[browser].pages) = 2
    /\ procs[browser].con = {1, 2}
    /\ \E j \in 1..Len(entries) : entries[j].url = WebUrl
    /\ \E j \in 1..Len(entries) : entries[j].url = AboutBlank


\* C22: whenever reload_extension has returned its success result, the
\* handle the channel caches at that moment is not null, is not the handle
\* cached before the reload, and leads to a worker instance started after
\* the call began.
C22_ReloadReattaches ==
    \A c \in Callers :
        (/\ calls[c].op = "reload_extension"
         /\ calls[c].pc = "done"
         /\ calls[c].res = Ok(Reattached)) =>
            /\ calls[c].cdp # <<>>
            /\ calls[c].cdp # calls[c].pre
            /\ calls[c].pre # <<>> => calls[c].cdp[2] > calls[c].pre[2]


\* C23: from a successful launch to the next close or launch, the identity
\* getExtension() gives (id, name, version, manifest path) does not change,
\* whatever evaluations, worker stops, revivals and reloads happen.
C23_IdentityImmutable ==
    [][(launched /\ launched') =>
          /\ extension # 0 /\ extension' # 0
          /\ ctx'[extension'].info = ctx[extension].info
          /\ ctx'[extension'].info.id = IdOf(procs[browser].dir)]_vars

\* open_popup has revived the channel of a session, which now leads to a
\* later worker instance than the one launch attached to
C23_Witness ==
    /\ launched
    /\ calls[1].op = "open_popup"
    /\ calls[1].res.kind = "ok"
    /\ procs[browser].wgen > 1
    /\ ctx[extension].swCdp = <<browser, procs[browser].wgen>>
    /\ ctx[extension].info = InfoOf(procs[browser].dir, IdOf(procs[browser].dir))


\* C24: every tool that takes a target (snapshot, screenshot, click, type,
\* wait_for, eval_extension_page) ends as getTargetPage(target) does: on the
\* page it returns, or with its failure when no page of the extension's
\* origin carries the marker.
C24_ToolsUseTargetLookup ==
    [][\A c \in Callers :
          (/\ calls'[c] # calls[c]
           /\ calls'[c].op \in TargetTools \cup {"snapshot"}
           /\ calls'[c].pc = "done") =>
              calls'[c].res = GetTargetPageRes(calls'[c].arg)]_vars


\* C25: navigate empties the Log Collector when clearConsole is set and the
\* Activity Recorder when clearNetwork is set, each independently of the
\* other flag, before the navigation is started, and leaves a buffer whose
\* flag is false as it is; when such a navigate has returned, every entry of
\* a cleared buffer was recorded after the clear.
C25_NavigateClears ==
    /\ [][\A c \in Callers :
            (Free(c) /\ calls'[c] # calls[c] /\ calls'[c].op = "navigate") =>
               /\ entries' = IF calls'[c].clr[2] THEN <<>> ELSE entries
               /\ networkEntries' = IF calls'[c].clr[1] THEN <<>>
                                    ELSE networkEntries
               /\ procs' = procs]_vars
    /\ [][\A c \in Callers :
            (calls[c].pc = "goto" /\ calls'[c] # calls[c]) =>
               entries' = entries /\ networkEntries' = networkEntries]_vars
    /\ [](\A c \in Callers :
            (calls[c].op = "navigate" /\ calls[c].pc = "done") =>
               /\ calls[c].clr[2] =>
                    \A j \in 1..Len(entries) :
                       entries[j].text[2] > calls[c].mark[2]
               /\ calls[c].clr[1] =>
                    \A j \in 1..Len(networkEntries) :
                       networkEntries[j].size > calls[c].mark[1])

\* a navigate with clearConsole and without clearNetwork has returned: the
\* collector holds a message written during the navigation and nothing
\* older, the recorder still holds a response from before the call
C25_Witness ==
    /\ calls[1].op = "navigate" /\ calls[1].pc = "done"
    /\ calls[1].res.kind = "ok"
    /\ calls[1].clr = <<FALSE, TRUE>>
    /\ calls[1].mark[2] > 0
    /\ Len(entries) > 0
    /\ \E j \in 1..Len(networkEntries) :
          networkEntries[j].size <= calls[1].mark[1]


\* the level the normalization table gives an event whose text names tag
TableLevel(tag) ==
    CASE tag \in {"pageerror", "exception", "assert", "error"} -> "error"
      [] tag \in {"warning", "warn"}                           -> "warn"
      [] tag \in {"trace", "verbose", "debug"}                 -> "debug"
      [] tag = "info"                                          -> "info"
      [] OTHER                                                 -> "log"

\* C26: every entry of the Log Collector has one of the five levels: console
\* output is mapped through the table (warning to warn, trace and verbose to
\* debug, dir and table to log, assert to error, unknown types to log),
\* uncaught page errors and worker exceptions are recorded at error.
C26_LevelsNormalized ==
    \A j \in 1..Len(entries) :
        /\ entries[j].level \in {"debug", "log", "info", "warn", "error"}
        /\ entries[j].level = TableLevel(entries[j].text[1])

\* the collector holds a page message of a type outside the table, at log,
\* and an uncaught exception of the worker, at error
C26_Witness ==
    /\ \E j \in 1..Len(entries) :
          /\ entries[j].source = "page"
          /\ entries[j].text[1] = "startGroup"
          /\ entries[j].level = "log"
    /\ \E j \in 1..Len(entries) :
          /\ entries[j].source = "service-worker"
          /\ entries[j].text[1] = "exception"
          /\ entries[j].level = "error"


\* C27: a launch that fails a precondition (directory missing, manifest
\* missing, no browser executable found) fails in one step that changes
\* nothing of the session, and when it has failed the manager's browser and
\* extension context are the ones from before the call.
C27_FailedPreconditionKeepsSession ==
    /\ [][\A c \in Callers :
            (/\ calls'[c] # calls[c]
             /\ calls'[c].op = "launch" /\ calls'[c].pc = "done"
             /\ calls'[c].res.code \in {NoPath, NoManifest, NoChrome}) =>
                /\ Free(c)
                /\ <<browser, extension, ctx, procs, launched>>' =
                      <<browser, extension, ctx, procs, launched>>]_vars
    /\ [](\A c \in Callers :
            (/\ calls[c].op = "launch" /\ calls[c].pc = "done"
             /\ calls[c].res.code \in {NoPath, NoManifest, NoChrome}) =>
                <<browser, extension>> = calls[c].was)

\* a launch has failed for a missing manifest while a session was running,
\* and the session's browser still runs with its channel attached
C27_Witness ==
    /\ calls[1].op = "launch" /\ calls[1].pc = "done"
    /\ calls[1].res = Err(NoManifest)
    /\ launched /\ IsLive(browser)
    /\ extension # 0
    /\ ProbeOk(ctx[extension].swCdp)


\* C28: at most one debug channel with forwarding listeners is attached to
\* any one worker instance, and each console or exception event of the
\* worker is in the Log Collector at most once.
C28_WorkerEventsOnce ==
    /\ \A b \in Browsers : procs[b].wchan <= 1
    /\ \A i \in 1..Len(entries), j \in 1..Len(entries) :
          (i # j /\ entries[i].source = "service-worker") =>
              entries[i].text # entries[j].text


\* C29: a getWorkerCDP whose probe of the cached handle passes returns that
\* handle and leaves every page, every debug channel and the Log Collector as
\* they were; a page is navigated to manifest.json only in the wake step of a
\* call whose probe failed or which found no handle cached.
C29_LiveHandleReused ==
    [][/\ \A c \in Callers :
            (calls[c].pc = "probe" /\ calls'[c].chan = "probed") =>
                /\ calls[c].pre # <<>>
                /\ calls'[c].cdp = calls[c].pre
                /\ ctx' = ctx
                /\ procs' = procs
                /\ entries' = entries
                /\ calls'[c].pc = "send"
       /\ \A c \in Callers :
            (calls[c].pc = "wake" /\ calls'[c].pc # "wake") =>
                \/ calls[c].chan = "nocache" /\ calls[c].pre = <<>>
                \/ /\ calls[c].chan = "dropped" /\ calls[c].pre # <<>>
                   /\ ctx[calls[c].k].swCdp = <<>>
       /\ \A b \in Browsers :
            (/\ procs[b].state = "live" /\ procs'[b].state = "live"
             /\ procs'[b].pages # procs[b].pages
             /\ Len(procs'[b].pages) = Len(procs[b].pages)
             /\ \E k \in DOMAIN ctx :
                    procs'[b].pages[1] = ExtUrl(ctx[k].info.id, ManifestJson)) =>
                \E c \in Callers :
                    \/ /\ calls[c].pc = "wake"
                       /\ calls[c].chan \in {"nocache", "dropped"}
                       /\ calls'[c].pc = "waitTarget"
                    \/ /\ OpenPopup(c)
                       /\ ~ProbeOk(ctx[extension].swCdp)
       /\ \A c \in Callers :
            (/\ OpenPopup(c)
             /\ extension # 0 /\ ProbeOk(ctx[extension].swCdp)) =>
                /\ ctx' = ctx
                /\ procs'[browser].wchan = procs[browser].wchan
                /\ procs'[browser].pages[1] = procs[browser].pages[1]
                /\ entries' = entries
      ]_vars

\* an evaluation went out on the handle cached at launch, after a probe that
\* passed: the first page is where launch left it and the worker instance
\* has the one channel of the launch-time attach
C29_Witness ==
    /\ calls[1].op = "evalInServiceWorker" /\ calls[1].pc = "done"
    /\ calls[1].chan = "probed"
    /\ calls[1].cdp = calls[1].pre /\ calls[1].pre # <<>>
    /\ calls[1].res.kind = "ok"
    /\ procs[browser].pages[1] = AboutBlank
    /\ procs[browser].wchan = 1


\* C30: the report's recentServiceWorkerErrors are the min(k, 20) most
\* recent of the k error entries of source service-worker the buffer held
\* when the report was made, whatever other entries lie between them.
C30_RecentWorkerErrors ==
    (/\ calls[1].op = "extension_errors" /\ calls[1].pc = "done"
     /\ calls[1].res.kind = "ok" /\ calls[1].res.val[1] = "report"
     /\ lastGet.called) =>
        LET sw == WorkerErrorsIn(lastGet.pre)
            k  == Len(sw)
            n  == IF k < ErrorsLimit THEN k ELSE ErrorsLimit
            recent == SubSeq(sw, k - n + 1, k)
            got == calls[1].res.val[3]
        IN  /\ Len(got) = n
            /\ \A i \in 1..n : got[i].message = recent[i].text


(***************************************************************************)
(* Properties of wrapExpression.                                           *)
(***************************************************************************)
\* C15 as stated: an input whose trimmed form has self-invoking shape comes
\* back byte for byte, and wrapping what wrapExpression returned changes
\* nothing.
C15_PassThroughBytes ==
    /\ (calls[1].pc = "wrapped" /\ IsIIFE(Trim(calls[1].expr))) =>
          calls[1].sent = calls[1].expr
    /\ calls[1].pc = "rewrapped" => calls[1].sent = calls[1].expr

\* C15, amended: an input whose trimmed form has self-invoking shape comes
\* back as that trimmed form (byte for byte the input when the input has no
\* white space around it), every result has self-invoking shape, and wrapping
\* what wrapExpression returned changes nothing.
C15_PassThroughTrimmed ==
    /\ (calls[1].pc = "wrapped" /\ IsIIFE(Trim(calls[1].expr))) =>
          /\ calls[1].sent = Trim(calls[1].expr)
          /\ Trim(calls[1].expr) = calls[1].expr => calls[1].sent = calls[1].expr
    /\ calls[1].pc = "wrapped" => IsIIFE(calls[1].sent)
    /\ calls[1].pc = "rewrapped" => calls[1].sent = calls[1].expr

\* an expression that was wrapped has been given to wrapExpression again
C15_Witness ==
    /\ calls[1].pc = "rewrapped"
    /\ calls[1].sent = IIFEOpen \o <<"return", " ", "x", ";">> \o IIFEClose
    /\ calls[1].expr = calls[1].sent

\* the text between `(async () => { ` and ` })()`
WrappedBody(w) == SubSeq(w, Len(IIFEOpen) + 1, Len(w) - Len(IIFEClose))

\* C16: for input not of self-invoking shape: with an explicit return the
\* trimmed text is wrapped as it is; otherwise, with several statements, all
\* but the last are kept in order and `return` goes before the last only;
\* with one statement, `return` goes before that statement.
C16_CaseRule ==
    LET t  == Trim(calls[1].expr)
        ss == Statements(t)
        n  == Len(ss)
        w  == calls[1].sent
    IN  (calls[1].pc = "wrapped" /\ ~IsIIFE(t)) =>
          /\ SubSeq(w, 1, Len(IIFEOpen)) = IIFEOpen
          /\ SubSeq(w, Len(w) - Len(IIFEClose) + 1, Len(w)) = IIFEClose
          /\ HasReturn(t) => WrappedBody(w) = t
          /\ (~HasReturn(t) /\ n > 1) =>
                WrappedBody(w) =
                    Join(SubSeq(ss, 1, n - 1)) \o <<";", "\n", "return", " ">>
                        \o ss[n] \o <<";">>
          /\ (~HasReturn(t) /\ n = 1) =>
                StartsWith(WrappedBody(w), <<"return", " ">> \o ss[1])


(***************************************************************************)
(* Properties of the collectors.                                           *)
(***************************************************************************)
Min(a, b) == IF a < b THEN a ELSE b

\* buf holds exactly the last Min(Len(hist), cap) elements of hist, in order
HoldsMostRecent(buf, hist, cap) ==
    /\ Len(buf) = Min(Len(hist), cap)
    /\ \A i \in 1..Len(buf) : buf[i] = hist[Len(hist) - Len(buf) + i]

\* C4: neither buffer ever holds more than 1000 entries, and each holds
\* exactly the most recently added ones, oldest first.
C4_RingBuffer ==
    /\ Len(entries) <= 1000
    /\ Len(networkEntries) <= 1000
    /\ HoldsMostRecent(entries, histC, 1000)
    /\ HoldsMostRecent(networkEntries, histN, 1000)

\* more than 1000 entries have been added to each buffer
C4_Witness ==
    /\ Len(histC) > 1000
    /\ Len(histN) > 1000
    /\ Len(entries) = 1000
    /\ Len(networkEntries) = 1000
    /\ entries[1] # histC[1]

\* debug < log < info < warn < error
SeverityRank(level) ==
    CASE level = "debug" -> 1
      [] level = "log"   -> 2
      [] level = "info"  -> 3
      [] level = "warn"  -> 4
      [] level = "error" -> 5

\* what a getEntries call must return: the entries passing all of since,
\* source and level, and of those the last `limit` when limit is positive
Expected(buf, opts) ==
    LET Pass(e) == /\ (opts.since # 0 => e.timestamp >= opts.since)
                   /\ (opts.source # "" => e.source = opts.source)
                   /\ (opts.level # "" =>
                          SeverityRank(e.level) >= SeverityRank(opts.level))
        kept    == SelectSeq(buf, Pass)
        n       == Len(kept)
    IN  IF opts.limit > 0 /\ n > opts.limit
        THEN [i \in 1..opts.limit |-> kept[n - opts.limit + i]]
        ELSE kept

\* C5: the result of getEntries is the composition since, source, level as
\* minimum severity, then limit as a tail.
C5_FilterOrder ==
    lastGet.called => lastGet.result = Expected(lastGet.pre, lastGet.opts)

\* the example: [debug@t1, error@t2, warn@t3], level=warn, limit=1 -> [warn@t3]
C5_Witness ==
    /\ lastGet.called
    /\ Len(lastGet.pre) = 3
    /\ lastGet.pre[1].level = "debug"
    /\ lastGet.pre[2].level = "error"
    /\ lastGet.pre[3].level = "warn"
    /\ lastGet.pre[1].timestamp < lastGet.pre[2].timestamp
    /\ lastGet.pre[2].timestamp < lastGet.pre[3].timestamp
    /\ lastGet.opts.level = "warn"
    /\ lastGet.opts.limit = 1
    /\ lastGet.result = <<lastGet.pre[3]>>

InSeq(s, x) == \E i \in 1..Len(s) : s[i] = x

\* C6: with a level and no limit, an entry that passes since and source is in
\* the result exactly when its level is the requested one or a higher one;
\* warn returns warn and error entries only.
C6_LevelMinimum ==
    (lastGet.called /\ lastGet.opts.level # "" /\ lastGet.opts.limit = 0) =>
        /\ \A i \in 1..Len(lastGet.pre) :
              LET e == lastGet.pre[i]
              IN  (/\ (lastGet.opts.since # 0 => e.timestamp >= lastGet.opts.since)
                   /\ (lastGet.opts.source # "" => e.source = lastGet.opts.source))
                  => (InSeq(lastGet.result, e) <=>
                        SeverityRank(e.level) >= SeverityRank(lastGet.opts.level))
        /\ lastGet.opts.level = "warn" =>
              \A i \in 1..Len(lastGet.result) :
                  lastGet.result[i].level \in {"warn", "error"}

\* warn was requested of a buffer holding info, warn and error entries
C6_Witness ==
    /\ lastGet.called
    /\ lastGet.opts.level = "warn"
    /\ lastGet.opts.limit = 0
    /\ {lastGet.pre[i].level : i \in 1..Len(lastGet.pre)} = {"info", "warn", "error"}
    /\ {lastGet.result[i].level : i \in 1..Len(lastGet.result)} = {"warn", "error"}

\* C7: after getEntries with clear the buffer is empty, whatever the filters
\* kept; without clear the buffer is what it was; either way the result is
\* the filtered view of the buffer as it was before the call.
C7_ClearDropsAll ==
    lastGet.called =>
        /\ (lastGet.opts.clear => entries = <<>>)
        /\ (~lastGet.opts.clear => entries = lastGet.pre)
        /\ \A i \in 1..Len(lastGet.result) : InSeq(lastGet.pre, lastGet.result[i])
        /\ Len(lastGet.result) = Len(Expected(lastGet.pre, lastGet.opts))

\* a clearing call whose filters kept some entries and dropped others
C7_Witness ==
    /\ lastGet.called
    /\ lastGet.opts.clear
    /\ Len(lastGet.result) > 0
    /\ Len(lastGet.result) < Len(lastGet.pre)
    /\ entries = <<>>

====
